---- MODULE Spec2Model ----
(***************************************************************************)
(* A model of the nonogram line solver (line_solve.rs), the clue model     *)
(* (puzzle.rs), the derivation of a puzzle from a picture (import.rs) and  *)
(* the grid driver (grid_solve.rs), with the disambiguator and its widget  *)
(* (grid_solve.rs, gui.rs).                                                *)
(*                                                                         *)
(* Representation.  A Cell's possible_color_mask (u32, bit c set when      *)
(* color c is possible) is the set of the colors whose bit is set.  A lane *)
(* is a sequence of cells; the code's 0-based index idx is lane[idx + 1].  *)
(* A usize value that wrapped below zero (overflow checks off) is kept as  *)
(* the negative representative of its residue, so that a later wrapping    *)
(* addition brings it back; indexing with it is out of bounds.             *)
(***************************************************************************)
EXTENDS Integers, Sequences, FiniteSets, TLC

VARIABLES
    overflow_checks, \* build profile: TRUE when arithmetic overflow panics
    pc,              \* position of the harness
    cell,            \* cell harness: the Cell under test
    cell_prev,       \* cell harness: the Cell before the last mutator
    cell_op,         \* cell harness: the last mutator call and its result
    clues,           \* line harness: the clue list of the line
    line0,           \* line harness: the lane before any operator ran
    packed,          \* line harness: results of packed_extents (left, right)
    skim1,           \* line harness: result of skim_line on line0
    skim2,           \* line harness: result of skim_line on skim1's lane
    scrub1,          \* line harness: result of scrub_line on line0
    sol,             \* solve: the picture the puzzle was derived from, or NoSolution
    puzzle,          \* solve: [palette, rows, cols], the argument of solve
    grid,            \* solve: the grid of Cells, a sequence of rows
    solve_lanes,     \* solve: the LaneState of every row, then of every column
    cells_left,      \* solve: the counter of unresolved cells
    skims,           \* solve: the number of skim_line calls
    scrubs,          \* solve: the number of scrub_line calls
    allowed_skims,   \* solve: the skim budget
    last,            \* solve: what the last loop iteration did
    result,          \* solve: "running", or what solve returned
    arr,             \* Arrangement harness: the Arrangement iterator
    arr_out,         \* Arrangement harness: the colors yielded so far
    arr_st,          \* Arrangement harness: "iter", "done" or "panic"
    pa,              \* gap harness: the PossibleArrangements iterator
    pa_out,          \* gap harness: the gap vectors yielded so far
    pa_st,           \* gap harness: "iter", "done" or "panic"
    dis_pic,         \* disambiguator: the picture's sizes and ambiguity
    dis_task,        \* disambiguator: the spawned task's position and table
    dis_chan,        \* disambiguator: the messages in the three channels
    dis_gui,         \* disambiguator: the Disambiguator of the GUI
    dis_orphans      \* disambiguator: tasks whose channels were replaced

cellVars == <<cell, cell_prev, cell_op>>
lineVars == <<clues, line0, packed, skim1, skim2, scrub1>>
solveVars == <<sol, puzzle, grid, solve_lanes, cells_left, skims, scrubs,
               allowed_skims, last, result>>
arrVars == <<arr, arr_out, arr_st>>
gapVars == <<pa, pa_out, pa_st>>
disVars == <<dis_pic, dis_task, dis_chan, dis_gui, dis_orphans>>
iterVars == <<arrVars, gapVars, disVars>>
vars == <<overflow_checks, pc, cellVars, lineVars, solveVars, iterVars>>

(***************************************************************************)
(* Bounds of the model.                                                    *)
(***************************************************************************)
NumColors == 2      \* foreground colors 1..NumColors; the palette adds BACKGROUND
MaxLineLen == 3     \* lanes of the line harness have 1..MaxLineLen cells
MaxBwLineLen == 5   \* its black-and-white lanes have up to MaxBwLineLen cells
MaxClues == 2       \* clue lists of the line harness have 0..MaxClues clues
MaxCount == 2       \* clue counts of the line harness are 0..MaxCount
MaxWidth == 3       \* pictures have 1..MaxWidth columns
MaxHeight == 2      \* pictures have 1..MaxHeight rows
MaxSide == 2        \* puzzles that come from no picture have sides 1..MaxSide
MaxPuzzleClues == 1 \* and 0..MaxPuzzleClues clues on every line
MaxArrLen == 5      \* lines of the Arrangement harness have 1..MaxArrLen cells
MaxGap == 2         \* entries of its gap vectors are 0..MaxGap
MaxGapLen == 3      \* PossibleArrangements is created with len 0..MaxGapLen
MaxSum == 3         \* and with max_sum 0..MaxSum
MaxDisX == 2        \* pictures of the disambiguator have 1..MaxDisX columns
MaxDisY == 2        \* and 1..MaxDisY rows
MaxStops == 2       \* at most MaxStops unread messages in the terminate channel
MaxOrphans == 1     \* at most MaxOrphans tasks are replaced while they run

BACKGROUND == 0
NoCap == 0 - 1      \* Option::None of a cap

Palette == 0..NumColors
Foreground == 1..NumColors

Max2(a, b) == IF a >= b THEN a ELSE b

(***************************************************************************)
(* Cell (line_solve.rs)                                                    *)
(***************************************************************************)
from_color(color) == {color}

is_known(c) == Cardinality(c) = 1

is_known_to_be(c, color) == c = {color}

can_be(c, color) == color \in c

\* Cell::learn: Err when the color is excluded, else the singleton; the
\* boolean is "was not already known".
learn(c, color) ==
    IF ~can_be(c, color)
    THEN [st |-> "err", cell |-> c, changed |-> FALSE]
    ELSE [st |-> "ok", cell |-> {color}, changed |-> ~is_known(c)]

learn_intersect(c, possible) ==
    IF c \cap possible = {}
    THEN [st |-> "err", cell |-> c, changed |-> FALSE]
    ELSE [st |-> "ok", cell |-> c \cap possible,
          changed |-> (c \cap possible) # c]

\* a learn_that_not that does not refuse to exclude the last color
learn_that_not_unchecked(c, color) ==
    [st |-> "ok", cell |-> c \ {color}, changed |-> can_be(c, color)]

learn_that_not(c, color) ==
    IF is_known_to_be(c, color)
    THEN [st |-> "err", cell |-> c, changed |-> FALSE]
    ELSE [st |-> "ok", cell |-> c \ {color}, changed |-> can_be(c, color)]

(***************************************************************************)
(* Clue: [color, count, pre_cap, post_cap]; a cap is NoCap or a color      *)
(***************************************************************************)
Cap(x) == IF x = NoCap THEN 0 ELSE 1

total_length(clue) == clue.count + Cap(clue.pre_cap) + Cap(clue.post_cap)

get_color_at_offset(clue, idx) ==
    IF idx = 0 /\ clue.pre_cap # NoCap THEN clue.pre_cap
    ELSE IF clue.post_cap # NoCap /\ idx = total_length(clue) - 1
         THEN clue.post_cap
         ELSE clue.color

\* Clue::must_be_separated_from (puzzle.rs)
must_be_separated_from(self, next) ==
    /\ self.color = next.color
    /\ self.post_cap = NoCap
    /\ next.pre_cap = NoCap

\* the separator condition written out in ClueAdjIterator::next
adj_needs_separator(prev_clue, current_clue) ==
    /\ (prev_clue.post_cap = NoCap \/ current_clue.pre_cap = NoCap)
    /\ prev_clue.color = current_clue.color

\* the separator condition written out in packed_extents
pack_needs_separator(prev_clue, current_clue) ==
    /\ (prev_clue.post_cap = NoCap \/ current_clue.pre_cap = NoCap)
    /\ prev_clue.color = current_clue.color

\* ClueAdjIterator: for clue i (0-based), (needs_separator_before, clue,
\* needs_separator_after)
ClueAdj(cs, i) ==
    [before |-> IF i > 0 THEN adj_needs_separator(cs[i], cs[i + 1]) ELSE FALSE,
     clue   |-> cs[i + 1],
     after  |-> IF i < Len(cs) - 1
                THEN adj_needs_separator(cs[i + 1], cs[i + 2]) ELSE FALSE]

(***************************************************************************)
(* learn_cell / learn_cell_not on a lane.  S = [st, lane, affected]; an    *)
(* earlier failure is passed on (the ? operator).                          *)
(***************************************************************************)
InLane(lane, idx) == idx >= 0 /\ idx < Len(lane)

\* a learn_cell that records the position whether or not the cell changed
learn_cell_recording_all(S, color, idx) ==
    IF S.st # "ok" THEN S
    ELSE IF ~InLane(S.lane, idx) THEN [S EXCEPT !.st = "panic"]
    ELSE LET r == learn(S.lane[idx + 1], color) IN
         IF r.st = "err" THEN [S EXCEPT !.st = "err"]
         ELSE [st |-> "ok",
               lane |-> [S.lane EXCEPT ![idx + 1] = r.cell],
               affected |-> Append(S.affected, idx)]

\* a learn_cell that records the background whatever color it is given
learn_cell_background(S, color, idx) ==
    IF S.st # "ok" THEN S
    ELSE [S EXCEPT !.lane[idx + 1] = {BACKGROUND}]

learn_cell(S, color, idx) ==
    IF S.st # "ok" THEN S
    ELSE IF ~InLane(S.lane, idx) THEN [S EXCEPT !.st = "panic"]
    ELSE LET r == learn(S.lane[idx + 1], color) IN
         IF r.st = "err" THEN [S EXCEPT !.st = "err"]
         ELSE [st |-> "ok",
               lane |-> [S.lane EXCEPT ![idx + 1] = r.cell],
               affected |-> IF r.changed THEN Append(S.affected, idx)
                            ELSE S.affected]

\* a learn_cell_not that excludes nothing
learn_cell_not_skipped(S, color, idx) == S

learn_cell_not(S, color, idx) ==
    IF S.st # "ok" THEN S
    ELSE IF ~InLane(S.lane, idx) THEN [S EXCEPT !.st = "panic"]
    ELSE LET r == learn_that_not(S.lane[idx + 1], color) IN
         IF r.st = "err" THEN [S EXCEPT !.st = "err"]
         ELSE [st |-> "ok",
               lane |-> [S.lane EXCEPT ![idx + 1] = r.cell],
               affected |-> IF r.changed THEN Append(S.affected, idx)
                            ELSE S.affected]

\* for idx in lo..=hi { learn_cell(color, lane, idx, affected)? }
RECURSIVE learn_range(_, _, _, _)
learn_range(S, color, lo, hi) ==
    IF S.st # "ok" \/ lo > hi THEN S
    ELSE learn_range(learn_cell(S, color, lo), color, lo + 1, hi)

(***************************************************************************)
(* packed_extents (line_solve.rs)                                          *)
(***************************************************************************)
lane_at(lane, reversed, idx) ==
    IF reversed THEN lane[(Len(lane) - 1 - idx) + 1] ELSE lane[idx + 1]

clue_at(cs, reversed, idx) ==
    IF reversed THEN cs[(Len(cs) - 1 - idx) + 1] ELSE cs[idx + 1]

\* The for loop over (pos..pos + total_len).rev(): "bail" past the end of the
\* lane, "moved" with the new pos at the first mismatch, else "placed".
RECURSIVE scan_window(_, _, _, _, _)
scan_window(clue, lane, reversed, pos, current_lane_idx) ==
    IF current_lane_idx < pos THEN [r |-> "placed", pos |-> pos]
    ELSE IF current_lane_idx >= Len(lane) THEN [r |-> "bail", pos |-> pos]
    ELSE IF ~can_be(lane_at(lane, reversed, current_lane_idx),
                    get_color_at_offset(clue, current_lane_idx - pos))
         THEN [r |-> "moved", pos |-> current_lane_idx + 1]
         ELSE scan_window(clue, lane, reversed, pos, current_lane_idx - 1)

\* while !placeable { ... }
RECURSIVE place_clue(_, _, _, _)
place_clue(clue, lane, reversed, pos) ==
    LET s == scan_window(clue, lane, reversed, pos,
                         pos + total_length(clue) - 1)
    IN  IF s.r = "moved" THEN place_clue(clue, lane, reversed, s.pos) ELSE s

\* for clue_idx in 0..clues.len(): separator, placement, extent
RECURSIVE pack_clues(_, _, _, _, _, _)
pack_clues(cs, lane, reversed, clue_idx, pos, extents) ==
    IF clue_idx >= Len(cs) THEN [st |-> "ok", extents |-> extents]
    ELSE
      LET clue == clue_at(cs, reversed, clue_idx)
          pos1 == IF clue_idx > 0
                     /\ pack_needs_separator(clue_at(cs, reversed, clue_idx - 1), clue)
                  THEN pos + 1 ELSE pos
          total_len == total_length(clue)
      IN  IF total_len = 0
          THEN pack_clues(cs, lane, reversed, clue_idx + 1, pos1, extents)
          ELSE LET p == place_clue(clue, lane, reversed, pos1) IN
               IF p.r = "bail" THEN [st |-> "err", extents |-> <<>>]
               ELSE pack_clues(cs, lane, reversed, clue_idx + 1,
                               p.pos + total_len,
                               Append(extents, p.pos + total_len - 1))

\* The second pass: loop { if !lane_at(i).can_be(BACKGROUND) {...}
\*                         if i == 0 {break}  i -= 1 }
RECURSIVE reel_in(_, _, _, _, _, _)
reel_in(cs, lane, reversed, extents, cur_extent_idx, i) ==
    IF ~InLane(lane, i) THEN [st |-> "panic", extents |-> <<>>]
    ELSE IF ~can_be(lane_at(lane, reversed, i), BACKGROUND)
    THEN
      IF cur_extent_idx < 0 \/ cur_extent_idx >= Len(extents)
      THEN [st |-> "panic", extents |-> <<>>]
      ELSE
        LET ext1 == IF extents[cur_extent_idx + 1] < i
                    THEN [extents EXCEPT ![cur_extent_idx + 1] = i]
                    ELSE extents
            i1 == ext1[cur_extent_idx + 1] + 1
                    - total_length(clue_at(cs, reversed, cur_extent_idx))
        IN  IF i1 < 0 /\ overflow_checks THEN [st |-> "panic", extents |-> <<>>]
            ELSE IF cur_extent_idx = 0 THEN [st |-> "ok", extents |-> ext1]
            ELSE IF i1 = 0 THEN [st |-> "ok", extents |-> ext1]
            ELSE reel_in(cs, lane, reversed, ext1, cur_extent_idx - 1, i1 - 1)
    ELSE IF i = 0 THEN [st |-> "ok", extents |-> extents]
    ELSE reel_in(cs, lane, reversed, extents, cur_extent_idx, i - 1)

\* if reversed { extents.reverse(); *extent = lane.len() - *extent - 1 }
flip_extents(lane, reversed, r) ==
    IF r.st = "ok" /\ reversed
    THEN [st |-> "ok",
          extents |-> [k \in 1..Len(r.extents) |->
                         Len(lane) - r.extents[Len(r.extents) + 1 - k] - 1]]
    ELSE r

\* what follows the first loop, p being its outcome
reel_in_packed(cs, lane, reversed, p) ==
    IF p.st # "ok" THEN p
    ELSE IF (Len(p.extents) = 0 \/ Len(lane) = 0) /\ overflow_checks
    THEN [st |-> "panic", extents |-> <<>>]
    ELSE flip_extents(lane, reversed,
                      reel_in(cs, lane, reversed, p.extents,
                              Len(p.extents) - 1, Len(lane) - 1))

packed_extents(cs, lane, reversed) ==
    reel_in_packed(cs, lane, reversed,
                   pack_clues(cs, lane, reversed, 0, 0, <<>>))

(***************************************************************************)
(* skim_line (line_solve.rs)                                               *)
(***************************************************************************)
Min3(a, b, c) ==
    IF a <= b /\ a <= c THEN a ELSE IF b <= c THEN b ELSE c

\* The loop over ClueAdjIterator zipped with the two extent lists.
RECURSIVE skim_overlap(_, _, _, _, _)
skim_overlap(S, cs, right_packed_left_extents, left_packed_right_extents, k) ==
    IF S.st # "ok"
       \/ k >= Min3(Len(cs), Len(right_packed_left_extents),
                    Len(left_packed_right_extents))
    THEN S
    ELSE
      LET adj == ClueAdj(cs, k)
          left_extent == right_packed_left_extents[k + 1]
          right_extent == left_packed_right_extents[k + 1]
          S1 == learn_range(S, adj.clue.color, left_extent, right_extent)
          pinned == (right_extent - left_extent) + 1 = total_length(adj.clue)
          S2 == IF pinned /\ adj.before /\ left_extent > 0
                THEN learn_cell(S1, BACKGROUND, left_extent - 1) ELSE S1
          S3 == IF pinned /\ adj.after /\ right_extent < Len(S.lane) - 1
                THEN learn_cell(S2, BACKGROUND, right_extent + 1) ELSE S2
      IN  skim_overlap(S3, cs, right_packed_left_extents,
                       left_packed_right_extents, k + 1)

\* The loop over right_packed_right_extents zipped with
\* left_packed_left_extents.skip(1); both are lazy maps over the extents
\* zipped with the clues, so element j exists for j < min(extents, clues).
RECURSIVE skim_between(_, _, _, _, _)
skim_between(S, cs, right_packed_left_extents, left_packed_right_extents, j) ==
    IF S.st # "ok" \/ j >= Len(right_packed_left_extents) \/ j >= Len(cs)
    THEN S
    ELSE
      LET right_extent_prev ==
              right_packed_left_extents[j + 1] + cs[j + 1].count - 1
      IN
      IF right_extent_prev < 0 /\ overflow_checks
      THEN [S EXCEPT !.st = "panic"]
      ELSE IF j + 1 >= Len(left_packed_right_extents) \/ j + 1 >= Len(cs)
      THEN S
      ELSE
        LET left_extent ==
                left_packed_right_extents[j + 2] + 1 - cs[j + 2].count
        IN
        IF left_extent < 0 /\ overflow_checks
        THEN [S EXCEPT !.st = "panic"]
        ELSE IF left_extent = 0
        THEN skim_between(S, cs, right_packed_left_extents,
                          left_packed_right_extents, j + 1)
        ELSE skim_between(
               learn_range(S, BACKGROUND, right_extent_prev + 1, left_extent - 1),
               cs, right_packed_left_extents, left_packed_right_extents, j + 1)

\* the open ends: for i in 0..=leftmost, for i in rightmost..lane.len();
\* S2 is the lane after the two loops over the clues
skim_open_ends(S2, cs, right_packed_left_extents, left_packed_right_extents) ==
    IF S2.st # "ok" THEN S2
    ELSE IF Len(left_packed_right_extents) = 0
    THEN [S2 EXCEPT !.st = "panic"]
    ELSE learn_range(
           learn_range(S2, BACKGROUND, 0,
                       left_packed_right_extents[1] - cs[1].count),
           BACKGROUND,
           right_packed_left_extents[Len(right_packed_left_extents)]
             + cs[Len(cs)].count,
           Len(S2.lane) - 1)

\* skim_line after the two packings, lp the left one and rp the right one;
\* the right packing is not computed when the left one failed
skim_packed(S0, cs, lp, rp) ==
    IF lp.st # "ok" THEN [S0 EXCEPT !.st = lp.st]
    ELSE IF rp.st # "ok" THEN [S0 EXCEPT !.st = rp.st]
    ELSE skim_open_ends(
           skim_between(skim_overlap(S0, cs, rp.extents, lp.extents, 0),
                        cs, rp.extents, lp.extents, 0),
           cs, rp.extents, lp.extents)

skim_line(cs, lane) ==
    IF Len(cs) = 0
    THEN learn_range([st |-> "ok", lane |-> lane, affected |-> <<>>],
                     BACKGROUND, 0, Len(lane) - 1)
    ELSE skim_packed([st |-> "ok", lane |-> lane, affected |-> <<>>], cs,
                     packed_extents(cs, lane, FALSE),
                     packed_extents(cs, lane, TRUE))

(***************************************************************************)
(* scrub_line (line_solve.rs)                                              *)
(***************************************************************************)
SetMin(s) == CHOOSE x \in s : \A y \in s : x <= y

\* match skim_line(cs, hypothetical_lane) { Ok(_) => {}, Err(_) => ... }
scrub_color(S, color, i, hyp) ==
    IF hyp.st = "panic" THEN [S EXCEPT !.st = "panic"]
    ELSE IF hyp.st = "err" THEN learn_cell_not(S, color, i)
    ELSE S

\* for color in lane[i].can_be_iter(): colors is what is left of the snapshot
RECURSIVE scrub_colors(_, _, _, _)
scrub_colors(S, cs, i, colors) ==
    IF S.st # "ok" \/ colors = {} THEN S
    ELSE scrub_colors(
           scrub_color(S, SetMin(colors), i,
                       skim_line(cs, [S.lane EXCEPT
                                        ![i + 1] = from_color(SetMin(colors))])),
           cs, i, colors \ {SetMin(colors)})

RECURSIVE scrub_cells(_, _, _)
scrub_cells(S, cs, i) ==
    IF S.st # "ok" \/ i >= Len(S.lane) THEN S
    ELSE IF is_known(S.lane[i + 1]) THEN scrub_cells(S, cs, i + 1)
    ELSE scrub_cells(scrub_colors(S, cs, i, S.lane[i + 1]), cs, i + 1)

scrub_line(cs, lane) ==
    scrub_cells([st |-> "ok", lane |-> lane, affected |-> <<>>], cs, 0)

(***************************************************************************)
(* Arrangement (line_solve.rs): the colors of a line laid out from a gap   *)
(* vector.  arrangement_next is Iterator::next on the state (block,        *)
(* pos_in_block, overall_pos); Arrangement collects the iterator.          *)
(***************************************************************************)
\* a gap block that treats the gap as one cell longer
gap_exhausted_late(gap_len, pos_in_block) == pos_in_block > gap_len

\* the test that ends a gap block
gap_exhausted(gap_len, pos_in_block) ==
    gap_len = 0 \/ pos_in_block >= gap_len

RECURSIVE arrangement_next(_, _, _, _, _, _)
arrangement_next(cs, gaps, len, block, pos_in_block, overall_pos) ==
    IF overall_pos >= len
    THEN [st |-> "none", color |-> BACKGROUND, block |-> block,
          pos_in_block |-> pos_in_block, overall_pos |-> overall_pos]
    ELSE IF block % 2 = 0
    THEN
      IF block \div 2 = Len(gaps)
      THEN [st |-> "some", color |-> BACKGROUND, block |-> block,
            pos_in_block |-> pos_in_block + 1, overall_pos |-> overall_pos + 1]
      ELSE
        LET gap_len == gaps[(block \div 2) + 1] IN
        IF gap_exhausted(gap_len, pos_in_block)
        THEN arrangement_next(cs, gaps, len, block + 1, 0, overall_pos)
        ELSE [st |-> "some", color |-> BACKGROUND, block |-> block,
              pos_in_block |-> pos_in_block + 1,
              overall_pos |-> overall_pos + 1]
    ELSE
      IF (block - 1) \div 2 >= Len(cs)
      THEN [st |-> "panic", color |-> BACKGROUND, block |-> block,
            pos_in_block |-> pos_in_block, overall_pos |-> overall_pos]
      ELSE
        LET current_clue_obj == cs[((block - 1) \div 2) + 1]
            clue_total_length == total_length(current_clue_obj)
        IN
        IF clue_total_length = 0 \/ pos_in_block >= clue_total_length
        THEN arrangement_next(cs, gaps, len, block + 1, 0, overall_pos)
        ELSE [st |-> "some",
              color |-> get_color_at_offset(current_clue_obj, pos_in_block),
              block |-> block, pos_in_block |-> pos_in_block + 1,
              overall_pos |-> overall_pos + 1]

RECURSIVE arrangement_collect(_, _, _, _, _, _, _)
arrangement_collect(cs, gaps, len, block, pos_in_block, overall_pos, out) ==
    LET n == arrangement_next(cs, gaps, len, block, pos_in_block, overall_pos)
    IN  IF n.st = "some"
        THEN arrangement_collect(cs, gaps, len, n.block, n.pos_in_block,
                                 n.overall_pos, Append(out, n.color))
        ELSE [st |-> IF n.st = "panic" THEN "panic" ELSE "ok", colors |-> out]

Arrangement(cs, gaps, len) == arrangement_collect(cs, gaps, len, 0, 0, 0, <<>>)

(***************************************************************************)
(* PossibleArrangements (line_solve.rs): the iterator over gap vectors.    *)
(* P = [gaps, max_sum, first_step]; possible_arrangements_next is          *)
(* Iterator::next and returns the iterator with what the call yielded.     *)
(***************************************************************************)
possible_arrangements_new(len, max_sum) ==
    [gaps |-> [k \in 1..len |-> 0], max_sum |-> max_sum, first_step |-> TRUE]

RECURSIVE gaps_sum(_)
gaps_sum(gaps) == IF gaps = <<>> THEN 0 ELSE Head(gaps) + gaps_sum(Tail(gaps))

\* the carry loop `for i in 0..self.gaps.len()` from index i on
RECURSIVE gaps_carry(_, _)
gaps_carry(P, i) ==
    IF i >= Len(P.gaps) THEN [st |-> "some", it |-> P]
    ELSE IF i = Len(P.gaps) - 1 THEN [st |-> "none", it |-> P]
    ELSE IF P.gaps[i + 1] = 0 THEN gaps_carry(P, i + 1)
    ELSE [st |-> "some",
          it |-> [P EXCEPT !.gaps[i + 1] = 0,
                           !.gaps[i + 2] = P.gaps[i + 2] + 1]]

possible_arrangements_next(P) ==
    IF P.first_step
    THEN [st |-> "some", it |-> [P EXCEPT !.first_step = FALSE]]
    ELSE IF gaps_sum(P.gaps) < P.max_sum
    THEN IF Len(P.gaps) = 0
         THEN [st |-> "panic", it |-> P]
         ELSE [st |-> "some", it |-> [P EXCEPT !.gaps[1] = P.gaps[1] + 1]]
    ELSE gaps_carry(P, 0)

(***************************************************************************)
(* skim_heuristic / scrub_heuristic (line_solve.rs)                        *)
(***************************************************************************)
RECURSIVE SumCounts(_)
SumCounts(cs) == IF cs = <<>> THEN 0 ELSE Head(cs).count + SumCounts(Tail(cs))

RECURSIVE MaxCountOf(_)
MaxCountOf(cs) ==
    IF cs = <<>> THEN 0 ELSE Max2(Head(cs).count, MaxCountOf(Tail(cs)))

\* the loop of skim_heuristic: (longest, cur) after the cells k..
RECURSIVE longest_span_from(_, _, _, _)
longest_span_from(lane, k, cur_foregroundable_span, longest_foregroundable_span) ==
    IF k > Len(lane) THEN longest_foregroundable_span
    ELSE IF ~is_known_to_be(lane[k], BACKGROUND)
    THEN longest_span_from(lane, k + 1, cur_foregroundable_span + 1,
             Max2(cur_foregroundable_span + 1, longest_foregroundable_span))
    ELSE longest_span_from(lane, k + 1, 0, longest_foregroundable_span)

skim_heuristic(cs, lane) ==
    IF Len(cs) = 0 THEN 1000
    ELSE
      LET longest_foregroundable_span == longest_span_from(lane, 1, 0, 0)
          total_clue_length == SumCounts(cs)
          longest_clue == MaxCountOf(cs)
          edge_bonus ==
              (IF ~is_known_to_be(lane[1], BACKGROUND) THEN 2 ELSE 0)
              + (IF ~is_known_to_be(lane[Len(lane)], BACKGROUND) THEN 2 ELSE 0)
      IN  (total_clue_length + longest_clue) - longest_foregroundable_span
            + edge_bonus

\* the first loop of scrub_heuristic: space_taken over the clues k..
RECURSIVE space_taken_from(_, _, _)
space_taken_from(cs, k, last_color) ==
    IF k > Len(cs) THEN 0
    ELSE cs[k].count + (IF last_color = cs[k].color THEN 1 ELSE 0)
           + space_taken_from(cs, k + 1, cs[k].color)

\* the last loop of scrub_heuristic: the number of runs of cells that
\* cannot be background
RECURSIVE foreground_chunks_from(_, _, _)
foreground_chunks_from(lane, k, in_a_foreground_chunk) ==
    IF k > Len(lane) THEN 0
    ELSE IF ~can_be(lane[k], BACKGROUND)
    THEN (IF in_a_foreground_chunk THEN 0 ELSE 1)
           + foreground_chunks_from(lane, k + 1, TRUE)
    ELSE foreground_chunks_from(lane, k + 1, FALSE)

\* i32 division truncates toward zero
TruncDiv(a, b) == IF a >= 0 THEN a \div b ELSE 0 - ((0 - a) \div b)

scrub_heuristic(cs, lane) ==
    LET foreground_cells == SumCounts(cs)
        space_taken == space_taken_from(cs, 1, NoCap)
        longest_clue == MaxCountOf(cs)
        known_background_cells ==
            Cardinality({k \in 1..Len(lane) : is_known_to_be(lane[k], BACKGROUND)})
        unknown_cells == Cardinality({k \in 1..Len(lane) : ~is_known(lane[k])})
        known_foreground_cells ==
            Len(lane) - unknown_cells - known_background_cells
        density == space_taken - known_foreground_cells + longest_clue - Len(cs)
        known_foreground_chunks == foreground_chunks_from(lane, 1, FALSE)
        unknown_background_cells ==
            (Len(lane) - foreground_cells) - known_background_cells
        excess_chunks == IF known_foreground_cells > 0
                         THEN known_foreground_chunks - Len(cs)
                         ELSE 0 - 2
    IN  density
          + Max2(0, TruncDiv(unknown_background_cells * (excess_chunks + 2), 2))

(***************************************************************************)
(* solution_to_puzzle (import.rs).  A Solution's grid is indexed [x][y]:   *)
(* a sequence of columns.                                                  *)
(***************************************************************************)
NoColor == 0 - 1    \* Option::None of a color

Nono(color, count) ==
    [color |-> color, count |-> count, pre_cap |-> NoCap, post_cap |-> NoCap]

\* The run-length loop over one line; colors is the line, with the None of
\* the extra last iteration appended by the callers.
RECURSIVE runs_from(_, _, _, _, _)
runs_from(colors, k, prev_color, run, out) ==
    IF k > Len(colors) THEN out
    ELSE IF prev_color = colors[k]
    THEN runs_from(colors, k + 1, prev_color, run + 1, out)
    ELSE runs_from(colors, k + 1, colors[k], 1,
                   IF prev_color = NoColor \/ prev_color = BACKGROUND THEN out
                   ELSE Append(out, Nono(prev_color, run)))

solution_to_puzzle(solution) ==
    LET width == Len(solution.grid)
        height == Len(solution.grid[1])
    IN  [palette |-> solution.palette,
         rows |-> [y \in 1..height |->
                     runs_from([x \in 1..(width + 1) |->
                                  IF x <= width THEN solution.grid[x][y]
                                  ELSE NoColor],
                               1, NoColor, 1, <<>>)],
         cols |-> [x \in 1..width |->
                     runs_from([y \in 1..(height + 1) |->
                                  IF y <= height THEN solution.grid[x][y]
                                  ELSE NoColor],
                               1, NoColor, 1, <<>>)]]

(***************************************************************************)
(* LaneState, find_best_lane and the Report (grid_solve.rs)                *)
(***************************************************************************)
I32_MIN == (0 - 2147483647) - 1
I32_MAX == 2147483647

\* a subtraction that saturates at zero
saturating_at_zero(a, b) == IF a <= b THEN 0 ELSE a - b

\* i32::saturating_sub, computed without leaving the i32 range
saturating_sub(a, b) ==
    IF b > 0 /\ a < I32_MIN + b THEN I32_MIN
    ELSE IF b < 0 /\ a > I32_MAX + b THEN I32_MAX
    ELSE a - b

\* Cell::new(puzzle)
new_cell(p) == p.palette

get_grid_lane(ls, g) ==
    IF ls.row THEN g[ls.index + 1]
    ELSE [r \in 1..Len(g) |-> g[r][ls.index + 1]]

\* the grid after the lane's view was written through
set_grid_lane(ls, g, lane) ==
    IF ls.row THEN [g EXCEPT ![ls.index + 1] = lane]
    ELSE [r \in 1..Len(g) |-> [g[r] EXCEPT ![ls.index + 1] = lane[r]]]

\* a rescore without the early return for a fully known lane
rescore_known_lanes_too(ls, g, was_processed) ==
    LET lane == get_grid_lane(ls, g)
        ls1 == IF was_processed
               THEN [ls EXCEPT !.processed_scrub_score = ls.scrub_score,
                               !.processed_skim_score = ls.skim_score]
               ELSE ls
    IN  [ls1 EXCEPT !.scrub_score = scrub_heuristic(ls.clues, lane),
                    !.skim_score = skim_heuristic(ls.clues, lane)]

rescore(ls, g, was_processed) ==
    LET lane == get_grid_lane(ls, g) IN
    IF \A k \in 1..Len(lane) : is_known(lane[k])
    THEN [ls EXCEPT !.scrub_score = I32_MIN, !.skim_score = I32_MIN]
    ELSE
      LET ls1 == IF was_processed
                 THEN [ls EXCEPT !.processed_scrub_score = ls.scrub_score,
                                 !.processed_skim_score = ls.skim_score]
                 ELSE ls
      IN  [ls1 EXCEPT !.scrub_score = scrub_heuristic(ls.clues, lane),
                      !.skim_score = skim_heuristic(ls.clues, lane)]

\* LaneState::new
new_lane_state(cs, row, idx, g) ==
    rescore([clues |-> cs, row |-> row, index |-> idx,
             scrubbed |-> FALSE, scrub_score |-> 0,
             processed_scrub_score |-> 0,
             skimmed |-> FALSE, skim_score |-> 0,
             processed_skim_score |-> 0], g, FALSE)

effective_score(ls, to_scrub) ==
    IF to_scrub
    THEN saturating_sub(ls.scrub_score, ls.processed_scrub_score)
    ELSE saturating_sub(ls.skim_score, ls.processed_skim_score)

\* find_best_lane: the position in lanes (1-based) of the lane returned,
\* 0 for None
RECURSIVE find_best_lane_from(_, _, _, _, _)
find_best_lane_from(lanes, to_scrub, k, best_score, res) ==
    IF k > Len(lanes) THEN res
    ELSE IF (to_scrub /\ lanes[k].scrubbed) \/ (~to_scrub /\ lanes[k].skimmed)
    THEN find_best_lane_from(lanes, to_scrub, k + 1, best_score, res)
    ELSE IF effective_score(lanes[k], to_scrub) > best_score
    THEN find_best_lane_from(lanes, to_scrub, k + 1,
                             effective_score(lanes[k], to_scrub), k)
    ELSE find_best_lane_from(lanes, to_scrub, k + 1, best_score, res)

\* a search that starts from the best score 0
find_best_lane_above_zero(lanes, to_scrub) ==
    find_best_lane_from(lanes, to_scrub, 1, 0, 0)

find_best_lane(lanes, to_scrub) ==
    find_best_lane_from(lanes, to_scrub, 1, I32_MIN, 0)

\* Cell::known_or().unwrap_or(BACKGROUND)
known_or_background(c) == IF is_known(c) THEN CHOOSE x \in c : TRUE ELSE BACKGROUND

\* a mask built row by row: indexed [y][x]
grid_to_solved_mask_by_rows(g) ==
    [y \in 1..Len(g) |-> [x \in 1..Len(g[1]) |-> is_known(g[y][x])]]

\* both are built column by column: indexed [x][y]
grid_to_solved_mask(g) ==
    [x \in 1..Len(g[1]) |-> [y \in 1..Len(g) |-> is_known(g[y][x])]]

grid_to_solution(g, p) ==
    [palette |-> p.palette,
     grid |-> [x \in 1..Len(g[1]) |->
                 [y \in 1..Len(g) |-> known_or_background(g[y][x])]]]

KnownCount(lane) == Cardinality({k \in 1..Len(lane) : is_known(lane[k])})

Contains(seq, x) == \E k \in 1..Len(seq) : seq[k] = x

(***************************************************************************)
(* The inputs of the harnesses                                             *)
(***************************************************************************)
Cells == (SUBSET Palette) \ {{}}

\* the cap colors: the last color of the palette is a triangle color
CapColors == {NumColors}

PlainClues ==
    [color : Foreground, count : 0..MaxCount,
     pre_cap : {NoCap}, post_cap : {NoCap}]

CappedClues ==
    [color : Foreground, count : {1},
     pre_cap : {NoCap} \cup CapColors, post_cap : {NoCap} \cup CapColors]

SeqsUpTo(S, n) == UNION {[1..k -> S] : k \in 0..n}

ClueLists == SeqsUpTo(PlainClues, MaxClues) \cup SeqsUpTo(CappedClues, MaxClues)

Lanes == UNION {[1..k -> Cells] : k \in 1..MaxLineLen}

\* longer lanes of a black-and-white puzzle (palette: background and color 1)
BwCells == (SUBSET {BACKGROUND, 1}) \ {{}}

BwLanes == UNION {[1..k -> BwCells] : k \in (MaxLineLen + 1)..MaxBwLineLen}

BwClueLists == {cs \in SeqsUpTo(PlainClues, MaxClues) :
                  \A k \in 1..Len(cs) : cs[k].color = 1}

LineInputs == (ClueLists \X Lanes) \cup (BwClueLists \X BwLanes)

NoResult == [st |-> "none", lane |-> <<>>, affected |-> <<>>]
NoExtents == [st |-> "none", extents |-> <<>>]

\* the variables of a harness that is not running
CellIdle == cell = {} /\ cell_prev = {} /\ cell_op = <<>>

LineIdle ==
    /\ clues = <<>> /\ line0 = <<>> /\ packed = <<>>
    /\ skim1 = <<>> /\ skim2 = <<>> /\ scrub1 = <<>>

SolveIdle ==
    /\ sol = <<>> /\ puzzle = <<>> /\ grid = <<>> /\ solve_lanes = <<>>
    /\ cells_left = 0 /\ skims = 0 /\ scrubs = 0 /\ allowed_skims = 0
    /\ last = <<>> /\ result = <<>>

ArrIdle == arr = <<>> /\ arr_out = <<>> /\ arr_st = ""

GapIdle == pa = <<>> /\ pa_out = <<>> /\ pa_st = ""

DisIdle ==
    /\ dis_pic = <<>> /\ dis_task = <<>> /\ dis_chan = <<>> /\ dis_gui = <<>>
    /\ dis_orphans = <<>>

IterIdle == ArrIdle /\ GapIdle /\ DisIdle

(***************************************************************************)
(* Line harness: one clue list and one lane; packed_extents in both        *)
(* directions, skim_line, skim_line again on its result, and scrub_line on *)
(* the starting lane.                                                      *)
(***************************************************************************)
InitLine ==
    /\ overflow_checks \in BOOLEAN
    /\ pc = "line"
    /\ CellIdle
    /\ SolveIdle
    /\ IterIdle
    /\ \E input \in LineInputs : clues = input[1] /\ line0 = input[2]
    /\ packed = <<NoExtents, NoExtents>>
    /\ skim1 = NoResult
    /\ skim2 = NoResult
    /\ scrub1 = NoResult

Pack ==
    /\ pc = "line"
    /\ pc' = "packed"
    /\ packed' = IF Len(clues) = 0 THEN <<NoExtents, NoExtents>>
                  ELSE <<packed_extents(clues, line0, FALSE),
                         packed_extents(clues, line0, TRUE)>>
    /\ UNCHANGED <<overflow_checks, cellVars, solveVars, iterVars, clues, line0,
                   skim1, skim2, scrub1>>

Skim ==
    /\ pc = "packed"
    /\ pc' = "skimmed"
    /\ skim1' = skim_line(clues, line0)
    /\ UNCHANGED <<overflow_checks, cellVars, solveVars, iterVars, clues, line0,
                   packed, skim2, scrub1>>

SkimAgain ==
    /\ pc = "skimmed"
    /\ pc' = "reskimmed"
    /\ skim2' = IF skim1.st = "ok" THEN skim_line(clues, skim1.lane)
                ELSE NoResult
    /\ UNCHANGED <<overflow_checks, cellVars, solveVars, iterVars, clues, line0,
                   packed, skim1, scrub1>>

Scrub ==
    /\ pc = "reskimmed"
    /\ pc' = "scrubbed"
    /\ scrub1' = scrub_line(clues, line0)
    /\ UNCHANGED <<overflow_checks, cellVars, solveVars, iterVars, clues, line0,
                   packed, skim1, skim2>>

NextLine == Pack \/ Skim \/ SkimAgain \/ Scrub

SpecLine == InitLine /\ [][NextLine]_vars

(***************************************************************************)
(* Cell harness: the three mutators applied to a grid cell                 *)
(***************************************************************************)
InitCell ==
    /\ overflow_checks \in BOOLEAN
    /\ pc = "cell"
    /\ LineIdle
    /\ SolveIdle
    /\ IterIdle
    /\ cell \in Cells
    /\ cell_prev = cell
    /\ cell_op = [op |-> "none", color |-> BACKGROUND, mask |-> {},
                  st |-> "ok", changed |-> FALSE]

Learn ==
    /\ pc = "cell"
    /\ \E color \in Palette :
         LET r == learn(cell, color) IN
         /\ cell' = r.cell
         /\ cell_prev' = cell
         /\ cell_op' = [op |-> "learn", color |-> color, mask |-> {},
                        st |-> r.st, changed |-> r.changed]
    /\ UNCHANGED <<overflow_checks, pc, lineVars, solveVars, iterVars>>

LearnThatNot ==
    /\ pc = "cell"
    /\ \E color \in Palette :
         LET r == learn_that_not(cell, color) IN
         /\ cell' = r.cell
         /\ cell_prev' = cell
         /\ cell_op' = [op |-> "learn_that_not", color |-> color, mask |-> {},
                        st |-> r.st, changed |-> r.changed]
    /\ UNCHANGED <<overflow_checks, pc, lineVars, solveVars, iterVars>>

LearnIntersect ==
    /\ pc = "cell"
    /\ \E possible \in SUBSET Palette :
         LET r == learn_intersect(cell, possible) IN
         /\ cell' = r.cell
         /\ cell_prev' = cell
         /\ cell_op' = [op |-> "learn_intersect", color |-> BACKGROUND,
                        mask |-> possible, st |-> r.st, changed |-> r.changed]
    /\ UNCHANGED <<overflow_checks, pc, lineVars, solveVars, iterVars>>

NextCell == Learn \/ LearnThatNot \/ LearnIntersect

SpecCell == InitCell /\ [][NextCell]_vars

(***************************************************************************)
(* Arrangement harness: one Arrangement over a clue list, a gap vector and *)
(* a line length; ArrNext is one call of Iterator::next.                   *)
(***************************************************************************)
ArrGaps == SeqsUpTo(0..MaxGap, MaxClues)

InitArr ==
    /\ overflow_checks \in BOOLEAN
    /\ pc = "arr"
    /\ CellIdle
    /\ LineIdle
    /\ SolveIdle
    /\ GapIdle
    /\ DisIdle
    /\ \E cs \in ClueLists, gaps \in ArrGaps, len \in 1..MaxArrLen :
          arr = [clues |-> cs, gaps |-> gaps, len |-> len, block |-> 0,
                 pos_in_block |-> 0, overall_pos |-> 0]
    /\ arr_out = <<>>
    /\ arr_st = "iter"

ArrNext ==
    /\ pc = "arr"
    /\ arr_st = "iter"
    /\ LET n == arrangement_next(arr.clues, arr.gaps, arr.len, arr.block,
                                 arr.pos_in_block, arr.overall_pos)
       IN  /\ arr' = [arr EXCEPT !.block = n.block,
                                 !.pos_in_block = n.pos_in_block,
                                 !.overall_pos = n.overall_pos]
           /\ arr_out' = IF n.st = "some" THEN Append(arr_out, n.color)
                         ELSE arr_out
           /\ arr_st' = CASE n.st = "some" -> "iter"
                          [] n.st = "none" -> "done"
                          [] OTHER -> "panic"
    /\ UNCHANGED <<overflow_checks, pc, cellVars, lineVars, solveVars,
                   gapVars, disVars>>

NextArr == ArrNext

SpecArr == InitArr /\ [][NextArr]_vars

(***************************************************************************)
(* Gap harness: one PossibleArrangements; GapNext is one call of           *)
(* Iterator::next.  The harness stops calling after one vector more than   *)
(* there are gap vectors within max_sum.                                   *)
(***************************************************************************)
GapVectorsWithin(len, max_sum) ==
    {g \in [1..len -> 0..max_sum] : gaps_sum(g) <= max_sum}

InitGaps ==
    /\ overflow_checks \in BOOLEAN
    /\ pc = "gaps"
    /\ CellIdle
    /\ LineIdle
    /\ SolveIdle
    /\ ArrIdle
    /\ DisIdle
    /\ \E len \in 0..MaxGapLen, max_sum \in 0..MaxSum :
          pa = possible_arrangements_new(len, max_sum)
    /\ pa_out = <<>>
    /\ pa_st = "iter"

GapNext ==
    /\ pc = "gaps"
    /\ pa_st = "iter"
    /\ Len(pa_out) <= Cardinality(GapVectorsWithin(Len(pa.gaps), pa.max_sum))
    /\ LET n == possible_arrangements_next(pa)
       IN  /\ pa' = n.it
           /\ pa_out' = IF n.st = "some" THEN Append(pa_out, n.it.gaps)
                        ELSE pa_out
           /\ pa_st' = CASE n.st = "some" -> "iter"
                         [] n.st = "none" -> "done"
                         [] OTHER -> "panic"
    /\ UNCHANGED <<overflow_checks, pc, cellVars, lineVars, solveVars,
                   arrVars, disVars>>

NextGaps == GapNext

SpecGaps == InitGaps /\ [][NextGaps]_vars

(***************************************************************************)
(* solve (grid_solve.rs).  The initial state is the state at the head of   *)
(* the loop after the grid and the lanes were built; SolveStep is one      *)
(* iteration of the loop.  The line cache is None.                         *)
(***************************************************************************)
NoSolution == [palette |-> {}, grid |-> <<>>]

Solutions ==
    UNION {[palette : {Palette}, grid : [1..w -> [1..h -> Palette]]] :
             w \in 1..MaxWidth, h \in 1..MaxHeight}

\* the clue lists of the puzzles that come from no picture
PuzzleClues ==
    [color : Foreground, count : 1..MaxCount,
     pre_cap : {NoCap}, post_cap : {NoCap}]

Puzzles ==
    UNION {[palette : {Palette},
            rows : [1..h -> SeqsUpTo(PuzzleClues, MaxPuzzleClues)],
            cols : [1..w -> SeqsUpTo(PuzzleClues, MaxPuzzleClues)]] :
             w \in 1..MaxSide, h \in 1..MaxSide}

new_grid(p) == [r \in 1..Len(p.rows) |-> [c \in 1..Len(p.cols) |-> new_cell(p)]]

new_solve_lanes(p, g) ==
    [k \in 1..(Len(p.rows) + Len(p.cols)) |->
        IF k <= Len(p.rows)
        THEN new_lane_state(p.rows[k], TRUE, k - 1, g)
        ELSE new_lane_state(p.cols[k - Len(p.rows)], FALSE,
                            k - Len(p.rows) - 1, g)]

Running == [st |-> "running"]

StartSolve(p) ==
    /\ puzzle = p
    /\ grid = new_grid(p)
    /\ solve_lanes = new_solve_lanes(p, new_grid(p))
    /\ cells_left = Len(p.rows) * Len(p.cols)
    /\ skims = 0
    /\ scrubs = 0
    /\ allowed_skims = 10
    /\ last = [kind |-> "none", lane |-> 0, affected |-> <<>>]
    /\ result = Running

InitSolve ==
    /\ overflow_checks \in BOOLEAN
    /\ pc = "solve"
    /\ CellIdle
    /\ LineIdle
    /\ IterIdle
    /\ \/ /\ sol \in Solutions
          /\ StartSolve(solution_to_puzzle(sol))
       \/ /\ sol = NoSolution
          /\ \E p \in Puzzles : StartSolve(p)

Report(g, n_skims, n_scrubs, left) ==
    [st |-> "report", skims |-> n_skims, scrubs |-> n_scrubs,
     cells_left |-> left,
     solution |-> grid_to_solution(g, puzzle),
     solved_mask |-> grid_to_solved_mask(g)]

\* a wake-up that clears the flags of every lane
wake_every_lane(lanes, g, was_row, affected_cells) ==
    [k \in 1..Len(lanes) |->
        [rescore(lanes[k], g, FALSE) EXCEPT !.skimmed = FALSE,
                                            !.scrubbed = FALSE]]

\* a wake-up loop that does not look at the axis of the lane
wake_lanes_of_either_axis(lanes, g, was_row, affected_cells) ==
    [k \in 1..Len(lanes) |->
        IF Contains(affected_cells, lanes[k].index)
        THEN [rescore(lanes[k], g, FALSE) EXCEPT !.skimmed = FALSE,
                                                 !.scrubbed = FALSE]
        ELSE lanes[k]]

\* the lanes after the wake-up loop at the end of an iteration
wake_lanes(lanes, g, was_row, affected_cells) ==
    [k \in 1..Len(lanes) |->
        IF lanes[k].row # was_row /\ Contains(affected_cells, lanes[k].index)
        THEN [rescore(lanes[k], g, FALSE) EXCEPT !.skimmed = FALSE,
                                                 !.scrubbed = FALSE]
        ELSE lanes[k]]

\* the line operator of the iteration, on a copy of the lane
line_op(will_scrub, cs, lane) ==
    IF will_scrub THEN scrub_line(cs, lane) ELSE skim_line(cs, lane)

\* find_best_lane found no lane
NoLaneLeft(will_scrub) ==
    IF will_scrub
    THEN /\ result' = Report(grid, skims, scrubs, cells_left)
         /\ last' = [kind |-> "return", lane |-> 0, affected |-> <<>>]
         /\ UNCHANGED <<grid, solve_lanes, cells_left, skims, scrubs,
                        allowed_skims>>
    ELSE /\ allowed_skims' = 0
         /\ last' = [kind |-> "noskim", lane |-> 0, affected |-> <<>>]
         /\ UNCHANGED <<grid, solve_lanes, cells_left, skims, scrubs,
                        result>>

\* a budget that a skim without effect leaves as it is
next_allowed_skims_kept(will_scrub, affected_cells, allowed) ==
    IF will_scrub
    THEN (IF Len(affected_cells) # 0 THEN 10 ELSE allowed)
    ELSE IF Len(affected_cells) = 0 THEN allowed
    ELSE Max2(10, allowed + 1)

\* the skim budget after an iteration that does not return
next_allowed_skims(will_scrub, affected_cells, allowed) ==
    IF will_scrub
    THEN (IF Len(affected_cells) # 0 THEN 10 ELSE allowed)
    ELSE IF Len(affected_cells) = 0 THEN allowed - 1
    ELSE Max2(10, allowed + 1)

\* the rest of the iteration: report is what the line operator returned for
\* lane number best, its lane field what it left in the grid
ProcessLane(best, will_scrub, report) ==
    LET lane0 == solve_lanes[best]
        marked == IF will_scrub THEN [lane0 EXCEPT !.scrubbed = TRUE]
                  ELSE [lane0 EXCEPT !.skimmed = TRUE]
        grid1 == set_grid_lane(lane0, grid, report.lane)
        known_before == KnownCount(get_grid_lane(lane0, grid))
        known_after == KnownCount(report.lane)
        left == cells_left - (known_after - known_before)
        lanes1 == [solve_lanes EXCEPT ![best] = rescore(marked, grid1, TRUE)]
    IN
    /\ skims' = IF will_scrub THEN skims ELSE skims + 1
    /\ scrubs' = IF will_scrub THEN scrubs + 1 ELSE scrubs
    /\ last' = [kind |-> IF will_scrub THEN "scrub" ELSE "skim",
                lane |-> best, affected |-> report.affected]
    /\ grid' = grid1
    /\ IF report.st # "ok"
       THEN /\ result' = [st |-> report.st]
            /\ solve_lanes' = [solve_lanes EXCEPT ![best] = marked]
            /\ UNCHANGED <<cells_left, allowed_skims>>
       ELSE IF (known_after < known_before \/ left < 0) /\ overflow_checks
       THEN /\ result' = [st |-> "panic"]
            /\ solve_lanes' = lanes1
            /\ UNCHANGED <<cells_left, allowed_skims>>
       ELSE
         /\ cells_left' = left
         /\ IF left = 0
            THEN /\ result' = Report(grid1, skims', scrubs', left)
                 /\ solve_lanes' = lanes1
                 /\ UNCHANGED allowed_skims
            ELSE /\ result' = result
                 /\ allowed_skims' =
                      next_allowed_skims(will_scrub, report.affected,
                                         allowed_skims)
                 /\ solve_lanes' = wake_lanes(lanes1, grid1, lane0.row,
                                              report.affected)

\* the lane find_best_lane chose, numbered best
TakeLane(best, will_scrub) ==
    ProcessLane(best, will_scrub,
                line_op(will_scrub, solve_lanes[best].clues,
                        get_grid_lane(solve_lanes[best], grid)))

SolveStep ==
    /\ pc = "solve"
    /\ result.st = "running"
    /\ \E best \in {find_best_lane(solve_lanes, allowed_skims = 0)} :
          IF best = 0 THEN NoLaneLeft(allowed_skims = 0)
          ELSE TakeLane(best, allowed_skims = 0)
    /\ UNCHANGED <<overflow_checks, pc, cellVars, lineVars, iterVars, sol,
                   puzzle>>

Next == SolveStep

\* The loop runs until solve returns: weak fairness of SolveStep, with
\* ENABLED <<SolveStep>>_vars written out (every iteration changes last,
\* the counters or the result, so the step is enabled exactly when solve
\* has not returned).
SolveStepEnabled == pc = "solve" /\ result.st = "running"

SolveFairness == <>[]SolveStepEnabled => []<><<SolveStep>>_vars

Spec == InitSolve /\ [][Next]_vars /\ SolveFairness

(***************************************************************************)
(* solve on wider pictures: a column of ones crosses WideHeight rows, the  *)
(* first row has two more ones and the second row one more, with one of    *)
(* the two ways to place them in columns 3 and 8, and rows 3 and 4 have    *)
(* one more cell each, with one of the two ways in columns 4 and 6.  The   *)
(* puzzles of the four pictures are the same, so solve cannot finish them. *)
(***************************************************************************)
WideWidth == 8
WideHeight == 4

WideOnes(s, t) ==
    {<<5, y>> : y \in 1..WideHeight}
      \cup {<<1, 1>>}
      \cup (IF s THEN {<<3, 1>>, <<8, 2>>} ELSE {<<8, 1>>, <<3, 2>>})
      \cup (IF t THEN {<<4, 3>>, <<6, 4>>} ELSE {<<6, 3>>, <<4, 4>>})

WidePictures ==
    {[palette |-> Palette,
      grid |-> [x \in 1..WideWidth |-> [y \in 1..WideHeight |->
                   IF <<x, y>> \in WideOnes(s, t) THEN 1 ELSE BACKGROUND]]] :
        s \in BOOLEAN, t \in BOOLEAN}

InitWide ==
    /\ overflow_checks \in BOOLEAN
    /\ pc = "solve"
    /\ CellIdle
    /\ LineIdle
    /\ IterIdle
    /\ sol \in WidePictures
    /\ StartSolve(solution_to_puzzle(sol))

SpecWide == InitWide /\ [][Next]_vars /\ SolveFairness

(***************************************************************************)
(* solve on pictures in two foreground colors whose first row is finished  *)
(* in stages: columns 1 and 2 are filled with color 1 and color 2, the     *)
(* first row has one more cell of color 1 in column 3 or 4, and rows 2 and *)
(* 3 have one more cell of color 2 each, with one of the two ways in       *)
(* columns 5 and 6, which solve cannot tell apart.                         *)
(***************************************************************************)
StagedWidth == 6
StagedHeight == 3

StagedColor(s, t, x, y) ==
    IF x \in {1, 2} THEN x
    ELSE IF y = 1 THEN (IF x = (IF s THEN 3 ELSE 4) THEN 1 ELSE BACKGROUND)
    ELSE IF <<x, y>> \in (IF t THEN {<<5, 2>>, <<6, 3>>}
                                ELSE {<<6, 2>>, <<5, 3>>}) THEN 2
    ELSE BACKGROUND

StagedPictures ==
    {[palette |-> Palette,
      grid |-> [x \in 1..StagedWidth |-> [y \in 1..StagedHeight |->
                   StagedColor(s, t, x, y)]]] :
        s \in BOOLEAN, t \in BOOLEAN}

InitStaged ==
    /\ overflow_checks \in BOOLEAN
    /\ pc = "solve"
    /\ CellIdle
    /\ LineIdle
    /\ IterIdle
    /\ sol \in StagedPictures
    /\ StartSolve(solution_to_puzzle(sol))

SpecStaged == InitStaged /\ [][Next]_vars /\ SolveFairness

(***************************************************************************)
(* solve on pictures with fewer colors: the palette of a picture is the    *)
(* background with the colors 1..n for an n below NumColors, so that the   *)
(* blank pictures whose palette is the background alone are among them.    *)
(***************************************************************************)
SmallPalettes == {0..n : n \in 0..(NumColors - 1)}

SmallPalettePictures ==
    UNION {[palette : {pal}, grid : [1..w -> [1..h -> pal]]] :
             pal \in SmallPalettes, w \in 1..MaxWidth, h \in 1..MaxHeight}

InitSmallPalette ==
    /\ overflow_checks \in BOOLEAN
    /\ pc = "solve"
    /\ CellIdle
    /\ LineIdle
    /\ IterIdle
    /\ sol \in SmallPalettePictures
    /\ StartSolve(solution_to_puzzle(sol))

SpecSmallPalette == InitSmallPalette /\ [][Next]_vars /\ SolveFairness

(***************************************************************************)
(* The disambiguator: disambig_candidates (grid_solve.rs) in the task that *)
(* Disambiguator::disambig_widget (gui.rs) spawns, the widget itself, and  *)
(* the ReplacePicture action of the GUI.  A progress value is kept as the  *)
(* reduced fraction of x * y_size + y over the number of cells; the table  *)
(* res as its dimensions, the number of cells written and whether the run  *)
(* returned from the terminate check.  A task whose channels the widget    *)
(* replaced keeps running with the old ends of the channels: it is kept    *)
(* in dis_orphans.                                                         *)
(***************************************************************************)
NoPicture == [x_size |-> 0, y_size |-> 0, ambiguous |-> FALSE]

DisPictures ==
    [x_size : 1..MaxDisX, y_size : 1..MaxDisY, ambiguous : BOOLEAN]

NoReport ==
    [some |-> FALSE, cancelled |-> FALSE, filled |-> 0,
     x_size |-> 0, y_size |-> 0]

NoTask ==
    [st |-> "none", x |-> 0, y |-> 0, filled |-> 0, cancelled |-> FALSE,
     solution |-> NoPicture]

\* the task right after spawn_async, with its clone of the picture
SpawnedTask(picture) == [NoTask EXCEPT !.st = "start", !.solution = picture]

NoMessages == [progress |-> <<>>, terminate |-> 0, report |-> <<>>]

\* the f32 n / d, as a fraction in lowest terms
Fraction(n, d) ==
    LET g == CHOOSE g \in 1..d :
                 /\ n % g = 0
                 /\ d % g = 0
                 /\ \A h \in (g + 1)..d : ~(n % h = 0 /\ d % h = 0)
    IN [num |-> n \div g, den |-> d \div g]

ProgressZero == [num |-> 0, den |-> 1]

ProgressOne == [num |-> 1, den |-> 1]

TaskCells(t) == t.solution.x_size * t.solution.y_size

DisCells == TaskCells(dis_task)

\* the message of a cell with y % 5 = 0
CellProgress(t) == Fraction(t.x * t.solution.y_size + t.y, TaskCells(t))

\* disambig_candidates has not returned yet
NotReturned(t) == t.st \in {"start", "cell", "yielded", "finish"}

\* the thread of the task is alive
Live(t) == NotReturned(t) \/ t.st = "sending"

\* the terminate receiver lives until disambig_candidates returns
TerminateOpen == NotReturned(dis_task)

\* the widget's test for a run in progress
ReportRunning(progress) ==
    progress.num > 0 /\ progress.num < progress.den

\* the task after the entry of its cell is written and no terminate
\* message was found
FollowingCell(t) ==
    IF t.y + 1 < t.solution.y_size
    THEN [t EXCEPT !.st = "cell", !.filled = @ + 1, !.y = @ + 1]
    ELSE IF t.x + 1 < t.solution.x_size
    THEN [t EXCEPT !.st = "cell", !.filled = @ + 1, !.x = @ + 1, !.y = 0]
    ELSE [t EXCEPT !.st = "finish", !.filled = @ + 1]

\* the task after it found a terminate message
CancelledTask(t) ==
    [t EXCEPT !.st = "sending", !.filled = @ + 1, !.cancelled = TRUE]

InitDis ==
    /\ overflow_checks \in BOOLEAN
    /\ pc = "dis"
    /\ CellIdle
    /\ LineIdle
    /\ SolveIdle
    /\ ArrIdle
    /\ GapIdle
    /\ dis_pic \in DisPictures
    /\ dis_task = NoTask
    /\ dis_chan = NoMessages
    /\ dis_gui = [progress |-> ProgressZero, report |-> NoReport,
                  panic |-> "none"]
    /\ dis_orphans = <<>>

\* disambig_candidates up to the loop: the first solve, and the early
\* return when it left no cell open
DisambigBegin ==
    /\ pc = "dis"
    /\ dis_task.st = "start"
    /\ IF dis_task.solution.ambiguous
       THEN /\ dis_task' = [dis_task EXCEPT !.st = "cell"]
            /\ UNCHANGED dis_chan
       ELSE /\ dis_task' = [dis_task EXCEPT !.st = "sending"]
            /\ dis_chan' =
                 [dis_chan EXCEPT !.progress = Append(@, ProgressZero)]
    /\ UNCHANGED <<overflow_checks, cellVars, lineVars, solveVars, arrVars,
                   gapVars, pc, dis_pic, dis_gui, dis_orphans>>

\* one cell up to yield_now: the hypotheses and the progress message
DisambigCell ==
    /\ pc = "dis"
    /\ dis_task.st = "cell"
    /\ dis_task' = [dis_task EXCEPT !.st = "yielded"]
    /\ dis_chan' =
         IF dis_task.y % 5 = 0
         THEN [dis_chan EXCEPT
                 !.progress = Append(@, CellProgress(dis_task))]
         ELSE dis_chan
    /\ UNCHANGED <<overflow_checks, cellVars, lineVars, solveVars, arrVars,
                   gapVars, pc, dis_pic, dis_gui, dis_orphans>>

\* after yield_now: the cell's entry is written, then terminate is polled
DisambigAfterYield ==
    /\ pc = "dis"
    /\ dis_task.st = "yielded"
    /\ IF dis_chan.terminate > 0
       THEN /\ dis_chan' = [dis_chan EXCEPT !.terminate = @ - 1]
            /\ dis_task' = CancelledTask(dis_task)
       ELSE /\ UNCHANGED dis_chan
            /\ dis_task' = FollowingCell(dis_task)
    /\ UNCHANGED <<overflow_checks, cellVars, lineVars, solveVars, arrVars,
                   gapVars, pc, dis_pic, dis_gui, dis_orphans>>

\* after the loop: progress 1.0 and the return of the table
DisambigFinish ==
    /\ pc = "dis"
    /\ dis_task.st = "finish"
    /\ dis_task' = [dis_task EXCEPT !.st = "sending"]
    /\ dis_chan' = [dis_chan EXCEPT !.progress = Append(@, ProgressOne)]
    /\ UNCHANGED <<overflow_checks, cellVars, lineVars, solveVars, arrVars,
                   gapVars, pc, dis_pic, dis_gui, dis_orphans>>

\* the spawned task sends what disambig_candidates returned
SendResult ==
    /\ pc = "dis"
    /\ dis_task.st = "sending"
    /\ dis_task' = [dis_task EXCEPT !.st = "ended"]
    /\ dis_chan' =
         [dis_chan EXCEPT
            !.report = Append(@, [some |-> TRUE,
                                  cancelled |-> dis_task.cancelled,
                                  filled |-> dis_task.filled,
                                  x_size |-> dis_task.solution.x_size,
                                  y_size |-> dis_task.solution.y_size])]
    /\ UNCHANGED <<overflow_checks, cellVars, lineVars, solveVars, arrVars,
                   gapVars, pc, dis_pic, dis_gui, dis_orphans>>

\* a step of a task whose channels the widget replaced: the receivers of
\* its progress and report senders are dropped, so the unwrap of a send
\* panics in the task's thread; its terminate receiver still yields the
\* messages that were sent before the sender was dropped
OrphanStep(o) ==
    LET t == o.task IN
    IF t.st = "start"
    THEN IF t.solution.ambiguous
         THEN [o EXCEPT !.task.st = "cell"]
         ELSE [o EXCEPT !.task.st = "progress_panic"]
    ELSE IF t.st = "cell"
    THEN IF t.y % 5 = 0
         THEN [o EXCEPT !.task.st = "progress_panic"]
         ELSE [o EXCEPT !.task.st = "yielded"]
    ELSE IF t.st = "yielded"
    THEN IF o.terminate > 0
         THEN [task |-> CancelledTask(t), terminate |-> o.terminate - 1]
         ELSE [o EXCEPT !.task = FollowingCell(t)]
    ELSE IF t.st = "finish"
    THEN [o EXCEPT !.task.st = "progress_panic"]
    ELSE [o EXCEPT !.task.st = "report_panic"]

DisambigOrphan ==
    /\ pc = "dis"
    /\ \E k \in 1..Len(dis_orphans) :
         /\ Live(dis_orphans[k].task)
         /\ dis_orphans' =
              [dis_orphans EXCEPT ![k] = OrphanStep(dis_orphans[k])]
    /\ UNCHANGED <<overflow_checks, cellVars, lineVars, solveVars, arrVars,
                   gapVars, pc, dis_pic, dis_task, dis_chan, dis_gui>>

\* the canvas reads disambig_report[x][y] for every cell of the picture
CanvasIndexInRange(report, picture) ==
    report.some =>
        /\ picture.x_size <= report.x_size
        /\ picture.y_size <= report.y_size

\* one frame: the widget with the button that was clicked, if any, and
\* then the canvas
DisambigWidget ==
    /\ pc = "dis"
    /\ dis_gui.panic = "none"
    /\ \E click \in {"none", "start", "stop", "clear"} :
         LET progress ==
                 IF dis_chan.progress # <<>>
                 THEN dis_chan.progress[Len(dis_chan.progress)]
                 ELSE dis_gui.progress
             report_running == ReportRunning(progress)
             starts == ~report_running /\ click = "start"
             stops == report_running /\ click = "stop"
             chan1 ==
                 IF starts THEN NoMessages
                 ELSE [dis_chan EXCEPT
                         !.progress = <<>>,
                         !.terminate = IF stops THEN @ + 1 ELSE @]
             report1 == IF chan1.report # <<>> THEN Head(chan1.report)
                        ELSE dis_gui.report
             report2 == IF click = "clear" /\ report1.some
                        THEN NoReport ELSE report1
         IN
         /\ stops => dis_chan.terminate < MaxStops
         /\ (starts /\ Live(dis_task)) => Len(dis_orphans) < MaxOrphans
         /\ IF stops /\ ~TerminateOpen
            THEN /\ dis_gui' = [dis_gui EXCEPT !.progress = progress,
                                               !.panic = "send"]
                 /\ dis_chan' = [dis_chan EXCEPT !.progress = <<>>]
                 /\ UNCHANGED <<dis_task, dis_orphans>>
            ELSE /\ dis_gui' =
                      [dis_gui EXCEPT
                         !.progress = progress,
                         !.report = report2,
                         !.panic =
                             IF CanvasIndexInRange(report2, dis_pic)
                             THEN "none" ELSE "index"]
                 /\ dis_chan' =
                      [chan1 EXCEPT
                         !.report = IF @ # <<>> THEN Tail(@) ELSE @]
                 /\ dis_task' =
                      IF starts THEN SpawnedTask(dis_pic) ELSE dis_task
                 /\ dis_orphans' =
                      IF starts /\ Live(dis_task)
                      THEN Append(dis_orphans,
                                  [task |-> dis_task,
                                   terminate |-> dis_chan.terminate])
                      ELSE dis_orphans
    /\ UNCHANGED <<overflow_checks, cellVars, lineVars, solveVars, arrVars,
                   gapVars, pc, dis_pic>>

\* Action::ReplacePicture: the new picture, and Disambiguator::reset
ReplacePicture ==
    /\ pc = "dis"
    /\ dis_gui.panic = "none"
    /\ \E picture \in DisPictures :
         /\ dis_pic' = picture
         /\ dis_gui' = [dis_gui EXCEPT !.report = NoReport]
    /\ UNCHANGED <<overflow_checks, cellVars, lineVars, solveVars, arrVars,
                   gapVars, pc, dis_task, dis_chan, dis_orphans>>

NextDis ==
    \/ DisambigWidget
    \/ ReplacePicture
    \/ DisambigBegin
    \/ DisambigCell
    \/ DisambigAfterYield
    \/ DisambigFinish
    \/ SendResult
    \/ DisambigOrphan

SpecDis == InitDis /\ [][NextDis]_vars

(***************************************************************************)
(* Properties of solve                                                     *)
(***************************************************************************)
Derived == pc = "solve" /\ sol # NoSolution

Returned == pc = "solve" /\ result.st \in {"report", "err"}

\* the grids of the puzzle's size, indexed [x][y]
GridsOf(p) == [1..Len(p.cols) -> [1..Len(p.rows) -> p.palette]]

\* every line's maximal runs of non-background color are the line's clues
SatisfiesClues(g, p) ==
    LET q == solution_to_puzzle([palette |-> p.palette, grid |-> g])
    IN  q.rows = p.rows /\ q.cols = p.cols

Satisfiable(p) == \E g \in GridsOf(p) : SatisfiesClues(g, p)

\* C1: solve on the puzzle derived from a picture never fails, and every
\* cell its Report marks as solved has the color it has in the picture.
C1_DerivedPuzzleSolvesToPicture ==
    Derived =>
      /\ result.st \in {"running", "report"}
      /\ result.st = "report" =>
            \A x \in 1..Len(sol.grid) : \A y \in 1..Len(sol.grid[1]) :
               result.solved_mask[x][y] =>
                  result.solution.grid[x][y] = sol.grid[x][y]

\* a Report for a derived puzzle that solved a foreground cell and left
\* another cell unknown
C1_Witness ==
    /\ Derived
    /\ result.st = "report"
    /\ result.cells_left > 0
    /\ \E x \in 1..Len(sol.grid) : \E y \in 1..Len(sol.grid[1]) :
          /\ result.solved_mask[x][y]
          /\ result.solution.grid[x][y] # BACKGROUND

\* C2: a Report with cells_left = 0 carries a grid that satisfies every row
\* clue list and every column clue list exactly.
C2_FinishedGridSatisfiesClues ==
    (pc = "solve" /\ result.st = "report" /\ result.cells_left = 0)
       => SatisfiesClues(result.solution.grid, puzzle)

\* the measure of the loop: the colors still possible, then the lanes not
\* yet scrubbed, then the skim budget
MaskTotal(g) ==
    LET n == Len(g[1])
        RECURSIVE Sum(_)
        Sum(k) == IF k = 0 THEN 0
                  ELSE Cardinality(g[((k - 1) \div n) + 1][((k - 1) % n) + 1])
                       + Sum(k - 1)
    IN  Sum(Len(g) * n)

Unscrubbed(lanes) == Cardinality({k \in 1..Len(lanes) : ~lanes[k].scrubbed})

MeasureDecreases ==
    \/ MaskTotal(grid') < MaskTotal(grid)
    \/ /\ MaskTotal(grid') = MaskTotal(grid)
       /\ \/ Unscrubbed(solve_lanes') < Unscrubbed(solve_lanes)
          \/ /\ Unscrubbed(solve_lanes') = Unscrubbed(solve_lanes)
             /\ allowed_skims' < allowed_skims
             /\ allowed_skims' >= 0

C8_ContradictoryPuzzleRefused ==
    (pc = "solve" /\ sol = NoSolution /\ result.st = "report")
       => Satisfiable(puzzle)

(***************************************************************************)
(* Properties of the line operators                                        *)
(***************************************************************************)
\* the separator rule as stated: same body color and no cap on the interface
RequiresSeparator(left, right) ==
    /\ left.color = right.color
    /\ left.post_cap = NoCap
    /\ right.pre_cap = NoCap

RECURSIVE SumLen(_)
SumLen(cs) ==
    IF cs = <<>> THEN 0 ELSE total_length(Head(cs)) + SumLen(Tail(cs))

RequiredSeparators(cs) ==
    Cardinality({k \in 2..Len(cs) : RequiresSeparator(cs[k - 1], cs[k])})

Overlong(cs, len) == SumLen(cs) + RequiredSeparators(cs) > len

RECURSIVE SumSeq(_)
SumSeq(g) == IF g = <<>> THEN 0 ELSE Head(g) + SumSeq(Tail(g))

\* the gaps before every clue that fit the line and respect the rule
GapVectors(cs, len) ==
    {g \in [1..Len(cs) -> 0..len] :
        /\ SumSeq(g) + SumLen(cs) <= len
        /\ \A k \in 2..Len(cs) :
              RequiresSeparator(cs[k - 1], cs[k]) => g[k] >= 1}

ClueCells(clue) ==
    [k \in 1..total_length(clue) |-> get_color_at_offset(clue, k - 1)]

RECURSIVE LayoutFrom(_, _, _)
LayoutFrom(cs, g, k) ==
    IF k > Len(cs) THEN <<>>
    ELSE [j \in 1..g[k] |-> BACKGROUND] \o ClueCells(cs[k])
         \o LayoutFrom(cs, g, k + 1)

\* the line of colors of one arrangement
Layout(cs, g, len) ==
    LET body == LayoutFrom(cs, g, 1)
    IN  body \o [j \in 1..(len - Len(body)) |-> BACKGROUND]

TrueLines(cs, len) == {Layout(cs, g, len) : g \in GapVectors(cs, len)}

Consistent(T, lane) == \A k \in 1..Len(lane) : T[k] \in lane[k]

Keeps(T, res) == res.st = "ok" /\ Consistent(T, res.lane)

\* C4: when the starting line admits an arrangement of the clues, skim_line
\* and scrub_line succeed and every cell still admits that arrangement's
\* color.
C4_LineOperatorsKeepTrueLine ==
    pc \in {"skimmed", "reskimmed", "scrubbed"} =>
      \A T \in TrueLines(clues, Len(line0)) :
         Consistent(T, line0) =>
           /\ Keeps(T, skim1)
           /\ pc = "scrubbed" => Keeps(T, scrub1)

\* C5: a second skim_line on the result of a successful skim_line succeeds,
\* changes no cell and reports no affected cell.
C5_SkimIdempotent ==
    (pc \in {"reskimmed", "scrubbed"} /\ skim1.st = "ok") =>
      /\ skim2.st = "ok"
      /\ skim2.lane = skim1.lane
      /\ skim2.affected = <<>>

\* C6: when skim_line and scrub_line both succeed on the same starting
\* line, every cell known after skim_line is known with the same color
\* after scrub_line.
C6_ScrubAtLeastAsStrongAsSkim ==
    (pc = "scrubbed" /\ skim1.st = "ok" /\ scrub1.st = "ok") =>
      \A k \in 1..Len(line0) :
         is_known(skim1.lane[k]) => scrub1.lane[k] = skim1.lane[k]

\* both succeeded, skim_line made a cell known that scrub_line has with the
\* same color, and scrub_line made known a cell that skim_line left open
C6_Witness ==
    /\ pc = "scrubbed"
    /\ skim1.st = "ok"
    /\ scrub1.st = "ok"
    /\ \E k \in 1..Len(line0) :
          /\ ~is_known(line0[k])
          /\ is_known(skim1.lane[k])
          /\ scrub1.lane[k] = skim1.lane[k]
    /\ \E k \in 1..Len(line0) :
          ~is_known(skim1.lane[k]) /\ is_known(scrub1.lane[k])

\* C9: when the clue lengths plus the required separators exceed the line
\* length, packed_extents returns an error in both directions and so does
\* skim_line.
C9_OverlongCluesFailToPack ==
    (pc # "line" /\ Len(clues) > 0 /\ Overlong(clues, Len(line0))) =>
      /\ packed[1].st = "err"
      /\ packed[2].st = "err"
      /\ pc \in {"skimmed", "reskimmed", "scrubbed"} => skim1.st = "err"

\* C10: for every pair of consecutive clues, must_be_separated_from, the
\* flags of ClueAdjIterator and the separator step of packed_extents all
\* answer: same body color and no cap on the interface.
C10_SeparatorRuleAgrees ==
    pc = "packed" =>
      \A k \in 1..(Len(clues) - 1) :
         LET rule == RequiresSeparator(clues[k], clues[k + 1]) IN
         /\ must_be_separated_from(clues[k], clues[k + 1]) = rule
         /\ ClueAdj(clues, k - 1).after = rule
         /\ ClueAdj(clues, k).before = rule
         /\ pack_needs_separator(clues[k], clues[k + 1]) = rule

(***************************************************************************)
(* Properties of the Cell mutators                                         *)
(***************************************************************************)
\* the narrowed mask of the last mutator call would be empty
WouldBeEmpty ==
    CASE cell_op.op = "learn" -> cell_op.color \notin cell_prev
      [] cell_op.op = "learn_that_not" -> cell_prev = {cell_op.color}
      [] cell_op.op = "learn_intersect" -> cell_prev \cap cell_op.mask = {}

\* C7: a mutator on a non-empty mask fails and leaves the mask as it was,
\* or succeeds and leaves a non-empty subset of it; it fails exactly when
\* the narrowed mask would be empty, and on success its boolean tells
\* whether the mask changed.
C7_CellMutatorsNarrowOrFail ==
    (pc = "cell" /\ cell_op.op # "none") =>
      /\ cell_prev # {}
      /\ cell_op.st \in {"ok", "err"}
      /\ cell_op.st = "err" => cell = cell_prev
      /\ cell_op.st = "ok" =>
            /\ cell # {}
            /\ cell \subseteq cell_prev
            /\ cell_op.changed <=> (cell # cell_prev)
      /\ (cell_op.st = "err") <=> WouldBeEmpty

\* learn_that_not removed a color from a mask and reported the change
C7_Witness ==
    /\ pc = "cell"
    /\ cell_op.op = "learn_that_not"
    /\ cell_op.st = "ok"
    /\ cell_op.changed
    /\ cell # cell_prev
    /\ cell # {}

(***************************************************************************)
(* Properties of Arrangement                                               *)
(***************************************************************************)
ArrFinished == pc = "arr" /\ arr_st # "iter"

ArrFits ==
    /\ Len(arr.gaps) = Len(arr.clues)
    /\ SumSeq(arr.gaps) + SumLen(arr.clues) <= arr.len

\* C11: with one gap entry per clue and gaps plus clue lengths within the
\* line length L, the iterator ends after exactly L colors, and they are
\* gap 0 of background, clue 0 (front cap, body, back cap), gap 1, clue 1,
\* and so on through the last clue, then background up to L; while it
\* runs, what it has yielded is a prefix of that line.
C11_ArrangementLaysOutGapsAndClues ==
    (pc = "arr" /\ ArrFits) =>
        /\ arr_st # "panic"
        /\ arr_out = SubSeq(Layout(arr.clues, arr.gaps, arr.len), 1,
                            Len(arr_out))
        /\ arr_st = "done" => Len(arr_out) = arr.len

C11_Witness ==
    /\ ArrFinished
    /\ ArrFits
    /\ Len(arr.clues) = 2
    /\ arr.clues[1].post_cap # NoCap
    /\ arr.gaps[2] > 0
    /\ Len(arr_out) = arr.len
    /\ arr_out[arr.len] = BACKGROUND
    /\ arr_out[arr.len - 1] # BACKGROUND

(***************************************************************************)
(* Properties of PossibleArrangements                                      *)
(***************************************************************************)
\* odometer order: position 0 varies fastest, so the vector that is smaller
\* at the highest position where two vectors differ comes first
OdometerBefore(g, h) ==
    \E k \in 1..Len(g) :
        /\ g[k] < h[k]
        /\ \A j \in (k + 1)..Len(g) : g[j] = h[j]

\* what was yielded so far is the beginning of the odometer enumeration of
\* the vectors within max_sum: no vector outside, none twice, none skipped
YieldedInOdometerOrder ==
    LET V == GapVectorsWithin(Len(pa.gaps), pa.max_sum) IN
    /\ \A k \in 1..Len(pa_out) : pa_out[k] \in V
    /\ \A k \in 1..Len(pa_out) :
          Cardinality({g \in V : OdometerBefore(g, pa_out[k])}) = k - 1

\* C12: for every len >= 0 and max_sum >= 0 the iterator yields the vectors
\* of len entries with sum at most max_sum in odometer order from all
\* zeros, each once and no other vector, does not panic, and when it ends
\* it has yielded all of them; it never yields more than there are.
C12_EveryGapVectorOnceInOdometerOrder ==
    pc = "gaps" =>
        /\ pa_st # "panic"
        /\ YieldedInOdometerOrder
        /\ pa_st = "done" =>
              Len(pa_out)
                = Cardinality(GapVectorsWithin(Len(pa.gaps), pa.max_sum))

\* the same for iterators over at least one position
C12_HoldsWithAPosition ==
    (pc = "gaps" /\ Len(pa.gaps) >= 1) =>
        /\ pa_st # "panic"
        /\ YieldedInOdometerOrder
        /\ pa_st = "done" =>
              Len(pa_out)
                = Cardinality(GapVectorsWithin(Len(pa.gaps), pa.max_sum))

(***************************************************************************)
(* Properties of the Report                                                *)
(***************************************************************************)
\* C13: in a Report, solved_mask and solution.grid have one column per
\* column clue list and one entry per row clue list in every column (for a
\* derived puzzle: the shape of the picture), and at every position
\* [column][row] solved_mask tells whether the grid cell has exactly one
\* possible color and solution.grid holds that color, or BACKGROUND when
\* the cell is not known.
C13_ReportMatchesGrid ==
    (pc = "solve" /\ result.st = "report") =>
        LET width == Len(puzzle.cols)
            height == Len(puzzle.rows)
        IN
        /\ Len(result.solved_mask) = width
        /\ Len(result.solution.grid) = width
        /\ Derived => Len(sol.grid) = width /\ Len(sol.grid[1]) = height
        /\ \A x \in 1..width :
              /\ Len(result.solved_mask[x]) = height
              /\ Len(result.solution.grid[x]) = height
              /\ \A y \in 1..height :
                    /\ result.solved_mask[x][y]
                          <=> (Cardinality(grid[y][x]) = 1)
                    /\ Cardinality(grid[y][x]) = 1
                          => grid[y][x] = {result.solution.grid[x][y]}
                    /\ Cardinality(grid[y][x]) # 1
                          => result.solution.grid[x][y] = BACKGROUND

\* a Report of a 3 x 2 puzzle with a known foreground cell and an unknown
\* cell
C13_Witness ==
    /\ pc = "solve"
    /\ result.st = "report"
    /\ Len(puzzle.cols) = 3
    /\ Len(puzzle.rows) = 2
    /\ \E x \in 1..3, y \in 1..2 :
          /\ result.solved_mask[x][y]
          /\ result.solution.grid[x][y] # BACKGROUND
    /\ \E x \in 1..3, y \in 1..2 : ~result.solved_mask[x][y]

(***************************************************************************)
(* Properties of the disambiguator                                         *)
(***************************************************************************)
\* C14: a run that returned because it read the terminate message produces
\* no result: no table of such a run is in the report channel, and the
\* Disambiguator of the GUI never holds one as its report.
C14_CancelledRunLeavesNoReport ==
    pc = "dis" =>
        /\ \A k \in 1..Len(dis_chan.report) : ~dis_chan.report[k].cancelled
        /\ dis_gui.report.some => ~dis_gui.report.cancelled

(***************************************************************************)
(* Properties of skim_line on particular lines                             *)
(***************************************************************************)
\* the gap vector with one cell before every clue that requires a separator
TightGaps(cs) ==
    [k \in 1..Len(cs) |->
        IF k > 1 /\ RequiresSeparator(cs[k - 1], cs[k]) THEN 1 ELSE 0]

\* the clue lengths and the required separators fill the line exactly
ExactFit(cs, lane) ==
    /\ Len(cs) > 0
    /\ SumLen(cs) + RequiredSeparators(cs) = Len(lane)

\* every cell of the lane admits every color of its puzzle
Unconstrained(lane) ==
    \/ \A k \in 1..Len(lane) : lane[k] = Palette
    \/ /\ Len(lane) > MaxLineLen
       /\ \A k \in 1..Len(lane) : lane[k] = {BACKGROUND, 1}

Skimmed == pc \in {"skimmed", "reskimmed", "scrubbed"}

\* C15: on a line that the clue lengths and the required separators fill
\* exactly and whose cells are all unconstrained, skim_line succeeds and
\* leaves every cell known with the color of the one arrangement: the
\* clues' colors, caps included, and background at the separators.
C15_ExactFitIsSolvedBySkim ==
    (Skimmed /\ ExactFit(clues, line0) /\ Unconstrained(line0)) =>
        /\ skim1.st = "ok"
        /\ skim1.lane =
             [k \in 1..Len(line0) |->
                 {Layout(clues, TightGaps(clues), Len(line0))[k]}]

\* the same for clue lists of plain clues with positive counts
C15_HoldsForPlainPositiveClues ==
    (/\ Skimmed /\ ExactFit(clues, line0) /\ Unconstrained(line0)
     /\ \A k \in 1..Len(clues) :
           /\ clues[k].count > 0
           /\ clues[k].pre_cap = NoCap
           /\ clues[k].post_cap = NoCap) =>
        /\ skim1.st = "ok"
        /\ skim1.lane =
             [k \in 1..Len(line0) |->
                 {Layout(clues, TightGaps(clues), Len(line0))[k]}]

\* the cells of all the clues, one clue after the other
RECURSIVE AllClueCells(_)
AllClueCells(cs) ==
    IF cs = <<>> THEN <<>> ELSE ClueCells(Head(cs)) \o AllClueCells(Tail(cs))

RECURSIVE WithoutBackground(_)
WithoutBackground(colors) ==
    IF colors = <<>> THEN <<>>
    ELSE IF Head(colors) = BACKGROUND THEN WithoutBackground(Tail(colors))
    ELSE <<Head(colors)>> \o WithoutBackground(Tail(colors))

ArrShortGaps ==
    /\ Len(arr.gaps) < Len(arr.clues)
    /\ SumSeq(arr.gaps) + SumLen(arr.clues) <= arr.len

\* C16: with fewer gap entries than clues (and room for the gaps and the
\* clues), the finished iterator has yielded L colors that hold every clue
\* of the list in order: without the background cells they are the cells
\* of clue 0, then of clue 1, and so on through the last clue.
C16_ShortGapsLayOutEveryClue ==
    (ArrFinished /\ ArrShortGaps) =>
        /\ arr_st = "done"
        /\ Len(arr_out) = arr.len
        /\ WithoutBackground(arr_out) = AllClueCells(arr.clues)

\* both packings of the line harness succeeded with one extent per clue
BothPacked ==
    /\ Len(clues) > 0
    /\ packed[1].st = "ok"
    /\ packed[2].st = "ok"
    /\ Len(packed[1].extents) = Len(clues)
    /\ Len(packed[2].extents) = Len(clues)

\* C17: after a skim_line that succeeded, for every clue with R its start
\* under right-packing and L its end under left-packing, every cell at a
\* position p in [R, L] is known to be the clue's color at offset p - R:
\* the cap color at a cap offset, the body color elsewhere.
C17_OverlapLearnsColorAtOffset ==
    (Skimmed /\ BothPacked /\ skim1.st = "ok") =>
        \A i \in 1..Len(clues) :
            \A p \in packed[2].extents[i]..packed[1].extents[i] :
                (p >= 0 /\ p - packed[2].extents[i] < total_length(clues[i]))
                  => skim1.lane[p + 1]
                       = {get_color_at_offset(clues[i],
                                              p - packed[2].extents[i])}

\* the same for plain clues
C17_HoldsForPlainClues ==
    (/\ Skimmed /\ BothPacked /\ skim1.st = "ok"
     /\ \A k \in 1..Len(clues) :
           clues[k].pre_cap = NoCap /\ clues[k].post_cap = NoCap) =>
        \A i \in 1..Len(clues) :
            \A p \in packed[2].extents[i]..packed[1].extents[i] :
                (p >= 0 /\ p - packed[2].extents[i] < total_length(clues[i]))
                  => skim1.lane[p + 1]
                       = {get_color_at_offset(clues[i],
                                              p - packed[2].extents[i])}

(***************************************************************************)
(* Properties of the lane scores.  The differences are stated through      *)
(* comparisons and sums that stay within the i32 range.                    *)
(***************************************************************************)
CurrentScore(ls, to_scrub) ==
    IF to_scrub THEN ls.scrub_score ELSE ls.skim_score

ProcessedScore(ls, to_scrub) ==
    IF to_scrub THEN ls.processed_scrub_score ELSE ls.processed_skim_score

SolveLanes == IF pc = "solve" THEN 1..Len(solve_lanes) ELSE {}

\* eff is max(0, cur - prev)
IsDifferenceAboveZero(eff, cur, prev) ==
    /\ eff >= 0
    /\ cur <= prev => eff = 0
    /\ cur > prev => eff + prev = cur

\* eff is cur - prev brought into the i32 range
IsDifferenceWithinI32(eff, cur, prev) ==
    /\ eff >= I32_MIN
    /\ eff <= I32_MAX
    /\ (eff > I32_MIN /\ eff < I32_MAX) => eff + prev = cur
    /\ eff = I32_MIN => (prev >= 0 /\ cur <= I32_MIN + prev)
    /\ eff = I32_MAX => (prev <= 0 /\ cur >= I32_MAX + prev)

\* C18 as stated: the effective score of every lane, for skim and for
\* scrub, is max(0, current score - last-processed score), so it is never
\* negative.
C18_EffectiveScoreSaturatesAtZero ==
    \A k \in SolveLanes : \A to_scrub \in BOOLEAN :
        IsDifferenceAboveZero(effective_score(solve_lanes[k], to_scrub),
                              CurrentScore(solve_lanes[k], to_scrub),
                              ProcessedScore(solve_lanes[k], to_scrub))

\* C18, amended: the effective score of every lane, for skim and for scrub,
\* is the current score minus the last-processed score saturated to the i32
\* range: negative when the current score is below the last-processed one,
\* and i32::MIN for a fully known lane whose last-processed score is not
\* negative.
C18_EffectiveScoreSaturatesAtI32 ==
    \A k \in SolveLanes : \A to_scrub \in BOOLEAN :
        LET cur == CurrentScore(solve_lanes[k], to_scrub)
            prev == ProcessedScore(solve_lanes[k], to_scrub)
            eff == effective_score(solve_lanes[k], to_scrub)
        IN  /\ IsDifferenceWithinI32(eff, cur, prev)
            /\ cur < prev => eff < 0
            /\ (cur = I32_MIN /\ prev >= 0) => eff = I32_MIN

\* a fully known lane that was processed with a positive score: the
\* difference is below the i32 range and the effective score is i32::MIN
C18_Witness ==
    \E k \in SolveLanes :
        /\ solve_lanes[k].skim_score = I32_MIN
        /\ solve_lanes[k].processed_skim_score > 0
        /\ effective_score(solve_lanes[k], FALSE) = I32_MIN

\* the loop iteration that ends in the primed state processed lane k
WorkedOn(k) == last'.kind \in {"skim", "scrub"} /\ last'.lane = k

ProcessedNow(k) == WorkedOn(k) /\ result'.st \in {"running", "report"}

OpOfLast == last'.kind = "scrub"

LaneFlag(ls, to_scrub) == IF to_scrub THEN ls.scrubbed ELSE ls.skimmed

FullyKnown(ls, g) ==
    \A c \in 1..Len(get_grid_lane(ls, g)) : is_known(get_grid_lane(ls, g)[c])

\* the cell where lanes j and k cross, for a row and a column
CrossingCell(g, j, k) ==
    IF solve_lanes[j].row
    THEN g[solve_lanes[j].index + 1][solve_lanes[k].index + 1]
    ELSE g[solve_lanes[k].index + 1][solve_lanes[j].index + 1]

\* the iteration changed a cell of lane j by an operation on a crossing lane
ChangedByCrossing(j) ==
    /\ last'.kind \in {"skim", "scrub"}
    /\ solve_lanes[j].row # solve_lanes[last'.lane].row
    /\ CrossingCell(grid', j, last'.lane) # CrossingCell(grid, j, last'.lane)

Unflagged(to_scrub) ==
    {k \in SolveLanes : ~LaneFlag(solve_lanes[k], to_scrub)}

\* lane b has the highest effective score of the unflagged lanes and is the
\* first of them with that score
FirstOfTheBest(b, to_scrub) ==
    /\ b \in Unflagged(to_scrub)
    /\ \A j \in Unflagged(to_scrub) :
          /\ effective_score(solve_lanes[j], to_scrub)
               <= effective_score(solve_lanes[b], to_scrub)
          /\ j < b => effective_score(solve_lanes[j], to_scrub)
                        < effective_score(solve_lanes[b], to_scrub)

\* C20 as stated: find_best_lane returns no lane only when every lane has
\* the flag of the operation; otherwise it returns the unflagged lane with
\* the highest effective score, the first in list order among equals.
C20_NoLaneOnlyWhenAllFlagged ==
    pc = "solve" =>
        \A to_scrub \in BOOLEAN :
            IF find_best_lane(solve_lanes, to_scrub) = 0
            THEN Unflagged(to_scrub) = {}
            ELSE FirstOfTheBest(find_best_lane(solve_lanes, to_scrub),
                                to_scrub)

\* C20, amended: find_best_lane returns no lane only when every lane that
\* lacks the flag of the operation has the effective score i32::MIN (as
\* fully known lanes have), in particular when every lane is flagged;
\* otherwise it returns the unflagged lane with the highest effective
\* score, the first in list order among equals.
C20_NoLaneOnlyWhenAllFlaggedOrAtMin ==
    pc = "solve" =>
        \A to_scrub \in BOOLEAN :
            IF find_best_lane(solve_lanes, to_scrub) = 0
            THEN \A k \in Unflagged(to_scrub) :
                    effective_score(solve_lanes[k], to_scrub) = I32_MIN
            ELSE /\ FirstOfTheBest(find_best_lane(solve_lanes, to_scrub),
                                   to_scrub)
                 /\ effective_score(
                        solve_lanes[find_best_lane(solve_lanes, to_scrub)],
                        to_scrub) > I32_MIN

\* the driver is about to look for a lane to skim, none is returned, and a
\* lane without the skimmed flag exists; in the same state the search for
\* a lane to scrub returns the first of two lanes with equal scores
C20_Witness ==
    /\ pc = "solve"
    /\ result.st = "running"
    /\ allowed_skims > 0
    /\ find_best_lane(solve_lanes, FALSE) = 0
    /\ Unflagged(FALSE) # {}
    /\ find_best_lane(solve_lanes, TRUE) # 0
    /\ \E j \in Unflagged(TRUE) :
          /\ j > find_best_lane(solve_lanes, TRUE)
          /\ effective_score(solve_lanes[j], TRUE)
               = effective_score(
                     solve_lanes[find_best_lane(solve_lanes, TRUE)], TRUE)

(***************************************************************************)
(* Properties of the driver's loop                                         *)
(***************************************************************************)
GoesOn == result'.st = "running"

\* C21: the skim budget starts at 10 and is never below 0; an iteration
\* skims only with a positive budget and scrubs only with the budget 0; in
\* an iteration after which the loop goes on, a skim without effect takes
\* 1 off the budget, a skim with effect sets it to max(10, budget + 1), a
\* scrub with effect sets it to 10 and a scrub without effect leaves it at
\* 0; finding no lane to skim sets it to 0; nothing else changes it.
C21_SkimBudgetRules ==
    /\ [](pc = "solve" =>
            /\ allowed_skims >= 0
            /\ last.kind = "none" => allowed_skims = 10)
    /\ [][pc = "solve" =>
            /\ last'.kind = "skim" =>
                 /\ allowed_skims > 0
                 /\ GoesOn =>
                      allowed_skims' =
                          IF last'.affected = <<>> THEN allowed_skims - 1
                          ELSE Max2(10, allowed_skims + 1)
            /\ last'.kind = "scrub" =>
                 /\ allowed_skims = 0
                 /\ GoesOn =>
                      allowed_skims' =
                          IF last'.affected = <<>> THEN 0 ELSE 10
            /\ last'.kind = "noskim" =>
                 allowed_skims > 0 /\ allowed_skims' = 0
            /\ last'.kind = "return" =>
                 allowed_skims = 0 /\ allowed_skims' = 0
            /\ ~GoesOn => allowed_skims' = allowed_skims]_vars

\* the loop goes on after a scrub with effect refilled the budget
C21_Witness ==
    /\ pc = "solve"
    /\ result.st = "running"
    /\ last.kind = "scrub"
    /\ last.affected # <<>>
    /\ allowed_skims = 10

\* lane k crosses the lane of the iteration at a position the operation
\* recorded as affected
CrossesAffected(k) ==
    /\ last'.kind \in {"skim", "scrub"}
    /\ solve_lanes[k].row # solve_lanes[last'.lane].row
    /\ Contains(last'.affected, solve_lanes[k].index)

\* lane k was woken: both flags cleared, the current scores taken from the
\* new grid, the last-processed scores kept
Woken(k) ==
    /\ ~solve_lanes'[k].skimmed
    /\ ~solve_lanes'[k].scrubbed
    /\ solve_lanes'[k].skim_score =
          IF FullyKnown(solve_lanes[k], grid') THEN I32_MIN
          ELSE skim_heuristic(solve_lanes[k].clues,
                              get_grid_lane(solve_lanes[k], grid'))
    /\ solve_lanes'[k].scrub_score =
          IF FullyKnown(solve_lanes[k], grid') THEN I32_MIN
          ELSE scrub_heuristic(solve_lanes[k].clues,
                               get_grid_lane(solve_lanes[k], grid'))
    /\ solve_lanes'[k].processed_skim_score
          = solve_lanes[k].processed_skim_score
    /\ solve_lanes'[k].processed_scrub_score
          = solve_lanes[k].processed_scrub_score

\* C22: in an iteration that skims or scrubs lane L and after which the
\* loop goes on, the lanes of the other axis whose index is among the
\* affected positions have both flags cleared and are rescored, and every
\* other lane except L keeps its flags and scores; no step of the driver
\* clears a flag of a lane in any other way.
C22_WakeUpClearsExactlyCrossingAffected ==
    [][pc = "solve" =>
         \A k \in 1..Len(solve_lanes) :
            /\ (last'.kind \in {"skim", "scrub"} /\ GoesOn /\ ~WorkedOn(k))
                 => IF CrossesAffected(k) THEN Woken(k)
                    ELSE solve_lanes'[k] = solve_lanes[k]
            /\ \A to_scrub \in BOOLEAN :
                 (/\ LaneFlag(solve_lanes[k], to_scrub)
                  /\ ~LaneFlag(solve_lanes'[k], to_scrub))
                   => (GoesOn /\ ~WorkedOn(k) /\ CrossesAffected(k))]_vars

\* a lane that was processed before has just been woken by an operation on
\* a crossing lane
C22_Witness ==
    /\ pc = "solve"
    /\ result.st = "running"
    /\ last.kind \in {"skim", "scrub"}
    /\ \E k \in 1..Len(solve_lanes) :
          /\ solve_lanes[k].row # solve_lanes[last.lane].row
          /\ Contains(last.affected, solve_lanes[k].index)
          /\ ~solve_lanes[k].skimmed
          /\ ~solve_lanes[k].scrubbed
          /\ solve_lanes[k].processed_scrub_score # 0

(***************************************************************************)
(* Properties of the grid that solve returns                               *)
(***************************************************************************)
ReturnedUnfinished ==
    pc = "solve" /\ result.st = "report" /\ result.cells_left > 0

\* the operator changes no cell of the line
ChangesNoCell(res, lane) == res.lane = lane

\* skim_line and scrub_line change no cell of lane k of the grid
LaneIsFixpoint(k) ==
    /\ ChangesNoCell(skim_line(solve_lanes[k].clues,
                               get_grid_lane(solve_lanes[k], grid)),
                     get_grid_lane(solve_lanes[k], grid))
    /\ ChangesNoCell(scrub_line(solve_lanes[k].clues,
                                get_grid_lane(solve_lanes[k], grid)),
                     get_grid_lane(solve_lanes[k], grid))

EveryLaneIsFixpoint == \A k \in 1..Len(solve_lanes) : LaneIsFixpoint(k)

\* C23: when solve returns a Report with cells_left > 0, no lane is left
\* unscrubbed and skim_line and scrub_line change no cell of any row or
\* column of the final grid.
C23_UnfinishedReportIsFixpoint ==
    ReturnedUnfinished =>
        /\ Unscrubbed(solve_lanes) = 0
        /\ EveryLaneIsFixpoint

(***************************************************************************)
(* Properties of scrub_line                                                *)
(***************************************************************************)
HasConsistentArrangement(cs, lane) ==
    \E T \in TrueLines(cs, Len(lane)) : Consistent(T, lane)

\* C24: scrub_line returns an error whenever no arrangement of the clues is
\* consistent with the cells of the starting line, also when every cell of
\* the line is known, and returns Ok only when a consistent arrangement
\* exists.
C24_ScrubErrsWithoutConsistentArrangement ==
    pc = "scrubbed" =>
        /\ ~HasConsistentArrangement(clues, line0) => scrub1.st = "err"
        /\ scrub1.st = "ok" => HasConsistentArrangement(clues, line0)

(***************************************************************************)
(* Properties of affected_cells                                            *)
(***************************************************************************)
NonDecreasing(s) == \A i \in 1..(Len(s) - 1) : s[i] <= s[i + 1]

\* the positions (from 0) where the line after the call differs
ChangedPositions(before, after) ==
    {k - 1 : k \in {j \in 1..Len(before) : after[j] # before[j]}}

Recorded(res) == {res.affected[i] : i \in 1..Len(res.affected)}

RecordsTheChanges(res) ==
    res.st = "ok" => Recorded(res) = ChangedPositions(line0, res.lane)

\* C25 as stated: in a skim_line or scrub_line call that returns a report,
\* the positions in affected_cells are in non-decreasing order and are
\* exactly the positions whose cell differs between the start and the end
\* of the call.
C25_AffectedCellsInIncreasingOrder ==
    /\ pc \in {"skimmed", "reskimmed", "scrubbed"} =>
          /\ RecordsTheChanges(skim1)
          /\ skim1.st = "ok" => NonDecreasing(skim1.affected)
    /\ pc = "scrubbed" =>
          /\ RecordsTheChanges(scrub1)
          /\ scrub1.st = "ok" => NonDecreasing(scrub1.affected)

\* C25, amended: in a skim_line or scrub_line call that returns a report,
\* the positions in affected_cells are exactly the positions whose cell
\* differs between the start and the end of the call; scrub_line records
\* them in non-decreasing order, skim_line in the order of its passes
\* (the cells of each block with the cell before and after it, then the
\* cells between blocks, then the cells left of the first and right of the
\* last block), which need not be increasing.
C25_AffectedCellsAreTheChangedCells ==
    /\ pc \in {"skimmed", "reskimmed", "scrubbed"} =>
          RecordsTheChanges(skim1)
    /\ pc = "scrubbed" =>
          /\ RecordsTheChanges(scrub1)
          /\ scrub1.st = "ok" => NonDecreasing(scrub1.affected)

\* skim_line recorded a later cell before an earlier one, and scrub_line
\* changed more than one cell of the same line
C25_Witness ==
    /\ pc = "scrubbed"
    /\ skim1.st = "ok"
    /\ ~NonDecreasing(skim1.affected)
    /\ scrub1.st = "ok"
    /\ Len(scrub1.affected) > 1

(***************************************************************************)
(* Properties of cells_left                                                *)
(***************************************************************************)
RECURSIVE UnknownFrom(_, _)
UnknownFrom(g, r) ==
    IF r > Len(g) THEN 0
    ELSE (Len(g[r]) - KnownCount(g[r])) + UnknownFrom(g, r + 1)

\* the number of cells of the grid whose mask is not a single color
UnknownCells(g) == UnknownFrom(g, 1)

CellsLeftIsUnknownCells ==
    /\ result.st = "running" => cells_left = UnknownCells(grid)
    /\ result.st = "report" => result.cells_left = UnknownCells(grid)

\* the subtraction from cells_left in the iteration that ends here
SubtractionInRange ==
    (last'.kind \in {"skim", "scrub"} /\ result'.st # "err") =>
       /\ result'.st # "panic"
       /\ KnownCount(get_grid_lane(solve_lanes[last'.lane], grid'))
            >= KnownCount(get_grid_lane(solve_lanes[last'.lane], grid))
       /\ cells_left' >= 0

\* C26: at the start of every iteration of the loop and in every returned
\* Report, cells_left is the number of grid cells whose mask is not a
\* single color, from the initialization on and for every palette, and the
\* subtraction that updates cells_left never underflows.
C26_CellsLeftCountsUnknownCells ==
    /\ [](pc = "solve" => CellsLeftIsUnknownCells)
    /\ [][pc = "solve" => SubtractionInRange]_vars

(***************************************************************************)
(* Properties of the selection of fully known lanes                        *)
(***************************************************************************)
\* C27: no iteration of the driver selects, for skim or for scrub, a lane
\* whose cells are all known, whatever scores the lane had when it was last
\* processed.
C27_FullyKnownLaneNeverSelected ==
    [][(pc = "solve" /\ last'.kind \in {"skim", "scrub"})
          => ~FullyKnown(solve_lanes[last'.lane], grid)]_vars

(***************************************************************************)
(* Properties of the disambiguator's tasks and of the widget's buttons     *)
(***************************************************************************)
\* the tasks for which disambig_candidates has not returned
RunningWorkers ==
    (IF NotReturned(dis_task) THEN 1 ELSE 0)
    + Cardinality({k \in 1..Len(dis_orphans) :
                      NotReturned(dis_orphans[k].task)})

\* the progress that the next frame of the widget works with
LatestProgress ==
    IF dis_chan.progress # <<>>
    THEN dis_chan.progress[Len(dis_chan.progress)]
    ELSE dis_gui.progress

\* the next frame of the widget shows the button "Disambiguate!"
DisambiguateOffered == ~ReportRunning(LatestProgress)

\* C28: at most one task runs disambig_candidates at any time: while the
\* task of the widget has not returned, the widget does not offer
\* "Disambiguate!", no task had its channels replaced before it returned,
\* and no progress send of a task met a dropped receiver.
C28_AtMostOneWorker ==
    pc = "dis" =>
        /\ RunningWorkers <= 1
        /\ NotReturned(dis_task) => ~DisambiguateOffered
        /\ \A k \in 1..Len(dis_orphans) :
               dis_orphans[k].task.st \in {"sending", "report_panic"}

\* C29: after "Stop" the widget comes back to the state that offers
\* "Disambiguate!": once the task has ended and every progress message was
\* read, report_running is false; and no click on "Stop" sends on a
\* terminate channel whose receiver is gone.
C29_StopLeadsBackToIdle ==
    pc = "dis" =>
        /\ (dis_task.st = "ended" /\ dis_chan.progress = <<>>)
               => ~ReportRunning(dis_gui.progress)
        /\ dis_gui.panic # "send"

\* C30: a report that the Disambiguator holds has the dimensions of the
\* current picture, and the canvas never indexes a report with
\* coordinates of another picture.
C30_ReportHasPictureDimensions ==
    pc = "dis" =>
        /\ dis_gui.report.some =>
               /\ dis_gui.report.x_size = dis_pic.x_size
               /\ dis_gui.report.y_size = dis_pic.y_size
        /\ dis_gui.panic # "index"

====
